---- MODULE Spec2Model ----
(***************************************************************************)
(* A model of the whalebase-translations pipeline: key generation          *)
(* (keyGen.js), the flat/nested converter (keyGen.js), the locale store    *)
(* and cache diff (locales.js), the batch translator (translator.js), the  *)
(* commands extract, translate, update and sync (server.js), the backend   *)
(* requests of a run (figma.js, translator.js) and the save handler of the *)
(* review server (server.js).                                              *)
(*                                                                         *)
(* JavaScript strings are TLA+ strings; a character is a string of length  *)
(* one.  A JavaScript object used as a map is a sequence of entries        *)
(* [key, value] in property order, with no key twice.                      *)
(***************************************************************************)
EXTENDS Integers, Sequences, FiniteSets, TLC

VARIABLES
  \* buildFlatMap (keyGen.js)
  textNodes,   \* the argument: a sequence of [text, path]
  nodeIdx,     \* position of the for-of loop over textNodes
  usedKeys,    \* the Map base key -> times produced
  flatMap,     \* the object under construction
  keys,        \* history: the key given to each node of this call, in order
  baseKeys,    \* history: the key of each node before collision handling
  prevKeys,    \* history: the keys given by the previous call
  call,        \* number of the call in progress (0: none yet)
  kgPc,        \* "idle" | "loop" | "returned"
  \* flatToNested, nestedToFlat (keyGen.js) and setNestedKey (locales.js)
  flat,        \* the FlatMap given to flatToNested
  entryIdx,    \* position of the loop over Object.entries(flat)
  nested,      \* the object flatToNested builds
  roundTrip,   \* nestedToFlat(nested)
  tree,        \* the object the setNestedKey calls edit
  setIdx,      \* the next entry of flat handed to setNestedKey
  treeFlat,    \* nestedToFlat(tree)
  ntPc,        \* "idle" | "toNested" | "nested" | "flat" | "done"
  \* diffFlatMaps (locales.js)
  current,     \* the FlatMap of this run
  cached,      \* the FlatMap of the cache
  added,       \* the three results
  changed,
  removed,
  dfPc,        \* "idle" | "call" | "returned"
  \* Translator.translateFlatMap (translator.js)
  trFlatMap,         \* the argument flatMap
  targetLang,        \* the argument targetLang
  batchStart,        \* i of the translation loop
  retryCount,        \* retryCount of the _translateBatch call in progress
  translatedResult,  \* the object the translation loop fills
  batchResponses,    \* history: the responses to the requests of the batch in hand
  translated,        \* what the last finished _translateBatch call returned
  scoreStart,        \* i of the scoring loop
  confidenceResult,  \* the object the scoring loop fills
  confidenceFile,    \* .cache/confidence.json
  trError,           \* the error thrown, "none" when there is none
  trPc,              \* "idle" | "translate" | "score" | "save" | "returned" | "thrown"
  \* setNestedKey and removeNestedKey on a locale document (locales.js)
  doc,         \* the document the calls edit
  prevDoc,     \* history: the document before the last call
  lastOp,      \* history: the last call, [op, key]
  opCount,     \* number of calls made
  mgPc,        \* "idle" | "edit"
  \* the commands extract, translate, update and sync (server.js)
  cmd,          \* the command run: "extract" | "translate" | "update" | "sync"
  enDoc,        \* locales/en.json
  langDocs,     \* the documents of the target languages, by language
  cache,        \* .cache/translation-cache.json: the FlatMap of the run before
  currentFlat,  \* cmdUpdate: the FlatMap of the design of this run
  submitted,    \* the FlatMap given to translateFlatMap
  removedKeys,  \* cmdUpdate: removed of the diff
  langIdx,      \* position of the loop over TARGET_LANGS
  returnedMaps, \* history: what translateFlatMap returned, language by language
  missingEnv,   \* the environment variables that are not set
  exitMissing,  \* the variables the error of requireEnv lists
  fileWrites,   \* history: the locale and cache files written by this run, in order
  backendCalls, \* history: the calls of this run that send backend requests:
                \* "figma" for fetchFigmaDocument, the language for translateFlatMap
  before,       \* history: the files before this run
  prevRun,      \* history: the run before this one
  cmPc,         \* where the run is: "idle", "start", ..., "done", "exit" or "thrown"
  \* the backend requests of a run (figma.js, translator.js, server.js)
  rqCmd,       \* the command run: "translate" | "update"
  rqEntries,   \* the number of entries of the map given to translateFlatMap
  attempt,     \* attempt of fetchFigmaDocument
  lastError,   \* lastError of fetchFigmaDocument
  fetchLog,    \* history: the sleeps, requests and answers of fetchFigmaDocument
  rqLang,      \* position of the loop over TARGET_LANGS
  rqBatch,     \* i of the translation loop
  rqRetry,     \* retryCount of the _translateBatch call in progress
  rqScore,     \* i of the scoring loop
  inFlight,    \* the requests sent and not answered yet
  sent,        \* history: the requests sent for the language in hand, in order
  lastAnswer,  \* history: the last answer received
  written,     \* history: the languages whose document was written, in order
  rqError,     \* the error thrown, "none" when there is none
  rqPc,        \* where the run is: "idle", "get", ..., "done" or "thrown"
  \* the handler of POST /api/save (server.js)
  localeFiles, \* the locale documents, by language
  svChanges,   \* changes of the body of each request
  svNested,    \* the object `nested` of each request
  svLog,       \* history: the reads and writes, in order
  svPc         \* where each request is: "idle", "end", "write" or "responded"

keyGenVars == <<textNodes, nodeIdx, usedKeys, flatMap, keys, baseKeys, prevKeys, call, kgPc>>

nestedVars == <<flat, entryIdx, nested, roundTrip, tree, setIdx, treeFlat, ntPc>>

diffVars == <<current, cached, added, changed, removed, dfPc>>

translatorVars ==
  <<trFlatMap, targetLang, batchStart, retryCount, translatedResult, batchResponses,
    translated, scoreStart, confidenceResult, confidenceFile, trError, trPc>>

mergeVars ==
  <<doc, prevDoc, lastOp, opCount, mgPc>>

commandVars ==
  <<cmd, enDoc, langDocs, cache, currentFlat, submitted, removedKeys, langIdx, returnedMaps,
    missingEnv, exitMissing, fileWrites, backendCalls, before, prevRun, cmPc>>

requestVars ==
  <<rqCmd, rqEntries, attempt, lastError, fetchLog, rqLang, rqBatch, rqRetry, rqScore, inFlight, sent, lastAnswer, written, rqError, rqPc>>

saveVars ==
  <<localeFiles, svChanges, svNested, svLog, svPc>>

vars == <<keyGenVars, nestedVars, diffVars, translatorVars, mergeVars, commandVars, requestVars, saveVars>>

\* what the actions of one component leave alone
notKeyGenVars == <<nestedVars, diffVars, translatorVars, mergeVars, commandVars, requestVars, saveVars>>
notNestedVars == <<keyGenVars, diffVars, translatorVars, mergeVars, commandVars, requestVars, saveVars>>
notDiffVars == <<keyGenVars, nestedVars, translatorVars, mergeVars, commandVars, requestVars, saveVars>>
notTranslatorVars == <<keyGenVars, nestedVars, diffVars, mergeVars, commandVars, requestVars, saveVars>>
notMergeVars == <<keyGenVars, nestedVars, diffVars, translatorVars, commandVars, requestVars, saveVars>>
notCommandVars == <<keyGenVars, nestedVars, diffVars, translatorVars, mergeVars, requestVars, saveVars>>
notRequestVars == <<keyGenVars, nestedVars, diffVars, translatorVars, mergeVars, commandVars, saveVars>>
notSaveVars == <<keyGenVars, nestedVars, diffVars, translatorVars, mergeVars, commandVars, requestVars>>

\* no key generation in progress
IdleKeyGen ==
  /\ textNodes = <<>>
  /\ nodeIdx = 1
  /\ usedKeys = <<>>
  /\ flatMap = <<>>
  /\ keys = <<>>
  /\ baseKeys = <<>>
  /\ prevKeys = <<>>
  /\ call = 0
  /\ kgPc = "idle"

\* no conversion in progress
IdleNested ==
  /\ flat = <<>>
  /\ entryIdx = 1
  /\ nested = <<>>
  /\ roundTrip = <<>>
  /\ tree = <<>>
  /\ setIdx = 1
  /\ treeFlat = <<>>
  /\ ntPc = "idle"

\* no translation in progress
IdleTranslate ==
  /\ trFlatMap = <<>>
  /\ targetLang = "ko"
  /\ batchStart = 0
  /\ retryCount = 0
  /\ translatedResult = <<>>
  /\ batchResponses = <<>>
  /\ translated = <<>>
  /\ scoreStart = 0
  /\ confidenceResult = <<>>
  /\ confidenceFile = [state |-> "absent"]
  /\ trError = "none"
  /\ trPc = "idle"

\* no diff in progress
IdleDiff ==
  /\ current = <<>>
  /\ cached = <<>>
  /\ added = <<>>
  /\ changed = <<>>
  /\ removed = <<>>
  /\ dfPc = "idle"

\* no edit of a document in progress
IdleMerge ==
  /\ doc = <<>>
  /\ prevDoc = <<>>
  /\ lastOp = [op |-> "none", key |-> ""]
  /\ opCount = 0
  /\ mgPc = "idle"

\* no command in progress
IdleCommands ==
  /\ cmd = "none"
  /\ enDoc = <<>>
  /\ langDocs = <<>>
  /\ cache = <<>>
  /\ currentFlat = <<>>
  /\ submitted = <<>>
  /\ removedKeys = <<>>
  /\ langIdx = 1
  /\ returnedMaps = <<>>
  /\ missingEnv = {}
  /\ exitMissing = {}
  /\ fileWrites = <<>>
  /\ backendCalls = <<>>
  /\ before = <<>>
  /\ prevRun = <<>>
  /\ cmPc = "idle"

\* no request-level run in progress
IdleRequests ==
  /\ rqCmd = "none"
  /\ rqEntries = 0
  /\ attempt = 1
  /\ lastError = [kind |-> "none"]
  /\ fetchLog = <<>>
  /\ rqLang = 1
  /\ rqBatch = 0
  /\ rqRetry = 0
  /\ rqScore = 0
  /\ inFlight = <<>>
  /\ sent = <<>>
  /\ lastAnswer = [kind |-> "none"]
  /\ written = <<>>
  /\ rqError = "none"
  /\ rqPc = "idle"

\* no save request in progress
IdleSave ==
  /\ localeFiles = <<>>
  /\ svChanges = <<>>
  /\ svNested = <<>>
  /\ svLog = <<>>
  /\ svPc = <<"idle", "idle">>

-----------------------------------------------------------------------------
(* Bounds of the model *)

MaxNodes == 3      \* longest sequence of text nodes given to buildFlatMap
MaxPathLen == 5    \* longest node path of a single-node input
MaxCalls == 2      \* buildFlatMap is called this many times on one input
MaxEntries == 3    \* most entries of a FlatMap given to flatToNested
MaxDiffEntries == 2  \* most entries of each FlatMap given to diffFlatMaps
MaxDocEntries == 2 \* most entries of the FlatMap a document is made from
MaxOps == 1        \* most setNestedKey and removeNestedKey calls on one document
MaxCmdNodes == 2   \* most text nodes of the design of a command run
MaxLastBatch == 1  \* most entries of the translation batch that follows a full one

-----------------------------------------------------------------------------
(* Strings *)

Char(s, i) == SubSeq(s, i, i)

Min(a, b) == IF a < b THEN a ELSE b
Max(a, b) == IF a > b THEN a ELSE b

UpperAlpha == "ABCDEFGHIJKLMNOPQRSTUVWXYZ"
LowerAlpha == "abcdefghijklmnopqrstuvwxyz"
Digits == "0123456789"

CharsOf(s) == { Char(s, i) : i \in 1..Len(s) }

\* the class \s of a regular expression, as far as the inputs use it
IsSpace(c) == c \in {" ", "\n", "\t"}

\* the class [a-z0-9]
LowerAlnumChars == CharsOf(LowerAlpha) \cup CharsOf(Digits)
IsLowerAlnum(c) == c \in LowerAlnumChars

UpperChars == CharsOf(UpperAlpha)
LowerOf ==
  [c \in UpperChars |->
     Char(LowerAlpha, CHOOSE i \in 1..Len(UpperAlpha) : Char(UpperAlpha, i) = c)]

lowerChar(c) == IF c \in UpperChars THEN LowerOf[c] ELSE c

RECURSIVE toLowerCase(_)
toLowerCase(s) ==
  IF s = "" THEN "" ELSE lowerChar(Char(s, 1)) \o toLowerCase(SubSeq(s, 2, Len(s)))

RECURSIVE trimStart(_)
trimStart(s) ==
  IF s # "" /\ IsSpace(Char(s, 1)) THEN trimStart(SubSeq(s, 2, Len(s))) ELSE s

RECURSIVE trimEnd(_)
trimEnd(s) ==
  IF s # "" /\ IsSpace(Char(s, Len(s))) THEN trimEnd(SubSeq(s, 1, Len(s) - 1)) ELSE s

trim(s) == trimEnd(trimStart(s))

\* String.prototype.substring(from, to) with 0 <= from <= to
substring(s, from, to) == SubSeq(s, from + 1, Min(to, Len(s)))

\* index of the first occurrence of the character sep in s, 0 when there is none
IndexOf(s, sep) ==
  IF \E i \in 1..Len(s) : Char(s, i) = sep
  THEN CHOOSE i \in 1..Len(s) :
         Char(s, i) = sep /\ \A j \in 1..(i - 1) : Char(s, j) # sep
  ELSE 0

\* String.prototype.split(sep) for a one-character separator
RECURSIVE split(_, _)
split(s, sep) ==
  LET i == IndexOf(s, sep) IN
  IF i = 0 THEN <<s>>
  ELSE <<SubSeq(s, 1, i - 1)>> \o split(SubSeq(s, i + 1, Len(s)), sep)

\* Array.prototype.join(sep)
RECURSIVE join(_, _)
join(parts, sep) ==
  IF parts = <<>> THEN ""
  ELSE IF Len(parts) = 1 THEN parts[1]
  ELSE parts[1] \o sep \o join(Tail(parts), sep)

-----------------------------------------------------------------------------
(* keyGen.js: nameToKey, textToKey, pathToPrefix *)

MAX_PATH_DEPTH == 4
MAX_KEY_LENGTH == 40

\* .replace(/[^a-z0-9\s]/g, ' ')
RECURSIVE replaceSpecial(_)
replaceSpecial(s) ==
  IF s = "" THEN ""
  ELSE (IF IsLowerAlnum(Char(s, 1)) \/ IsSpace(Char(s, 1)) THEN Char(s, 1) ELSE " ")
       \o replaceSpecial(SubSeq(s, 2, Len(s)))

\* .replace(/\s+/g, '_')
RECURSIVE replaceSpaces(_)
replaceSpaces(s) ==
  IF s = "" THEN ""
  ELSE IF IsSpace(Char(s, 1))
       THEN "_" \o replaceSpaces(trimStart(s))
       ELSE Char(s, 1) \o replaceSpaces(SubSeq(s, 2, Len(s)))

\* .replace(/^_+|_+$/g, '')
RECURSIVE stripUnderscores(_)
stripUnderscores(s) ==
  IF s # "" /\ Char(s, 1) = "_" THEN stripUnderscores(SubSeq(s, 2, Len(s)))
  ELSE IF s # "" /\ Char(s, Len(s)) = "_" THEN stripUnderscores(SubSeq(s, 1, Len(s) - 1))
  ELSE s

\* the chain of nameToKey before its fallback
normalizeName(name) ==
  substring(stripUnderscores(replaceSpaces(replaceSpecial(trim(toLowerCase(name))))),
            0, MAX_KEY_LENGTH)

nameToKey(name) ==
  LET k == normalizeName(name) IN IF k = "" THEN "unknown" ELSE k

firstLineOf(text) == substring(trim(split(text, "\n")[1]), 0, 50)

textToKey(text) ==
  LET k == nameToKey(firstLineOf(text)) IN IF k = "" THEN "text" ELSE k

\* Array.prototype.slice(-n)
sliceLast(seq, n) == SubSeq(seq, Max(1, Len(seq) - n + 1), Len(seq))

mapNameToKey(path) == [i \in 1..Len(path) |-> nameToKey(path[i])]

pathToPrefix_first(path) ==
  LET keep(k) == k # "unknown" /\ Len(k) > 0
  IN  join(SelectSeq(mapNameToKey(SubSeq(path, 1, Min(MAX_PATH_DEPTH, Len(path)))), keep), ".")

pathToPrefix(path) ==
  LET keep(k) == k # "unknown" /\ Len(k) > 0
  IN  join(SelectSeq(mapNameToKey(sliceLast(path, MAX_PATH_DEPTH)), keep), ".")

\* buildFlatMap, lines 53-55: the key of a node before collision handling
baseKey(node) ==
  LET prefix == pathToPrefix(node.path)
      leaf == textToKey(node.text)
  IN  IF prefix # "" THEN prefix \o "." \o leaf ELSE leaf

-----------------------------------------------------------------------------
(* JavaScript objects as entry sequences *)

ObjKeys(obj) == { obj[i].key : i \in 1..Len(obj) }

ObjHas(obj, k) == k \in ObjKeys(obj)

ObjGet(obj, k) == obj[CHOOSE i \in 1..Len(obj) : obj[i].key = k].value

\* obj[k] = v : an existing property keeps its place, a new one goes last
ObjSet(obj, k, v) ==
  IF ObjHas(obj, k)
  THEN [i \in 1..Len(obj) |-> IF obj[i].key = k THEN [key |-> k, value |-> v] ELSE obj[i]]
  ELSE Append(obj, [key |-> k, value |-> v])

EmptyObj == <<>>

-----------------------------------------------------------------------------
(* keyGen.js: buildFlatMap *)

\* node names and texts the inputs are made of
SegNames == {"Footer", "Nav Bar", "***", "Unknown"}
Texts == {"Save", "Save 2", "!!", " Ok\nmore"}

SeqsUpTo(S, n) == UNION { [1..m -> S] : m \in 0..n }

\* single nodes with every path up to MaxPathLen
SingleNodes ==
  { <<[text |-> "Save", path |-> p]>> : p \in SeqsUpTo(SegNames, MaxPathLen) }

\* node sequences in which base keys collide
CollidingNodes == [text : Texts, path : {<<>>, <<"Footer">>}]

TextNodeInputs == SingleNodes \cup SeqsUpTo(CollidingNodes, MaxNodes)

\* line 49, const usedKeys = new Map()
staleUsedKeys == usedKeys
newUsedKeys == <<>>

\* lines 58-64: the count of a base key after one more use
nextCount(used, key) == IF ObjHas(used, key) THEN ObjGet(used, key) + 1 ELSE 1

\* lines 48-50: a call starts with an empty counter and an empty object
BuildEnter ==
  /\ kgPc \in {"idle", "returned"}
  /\ call < MaxCalls
  /\ call' = call + 1
  /\ usedKeys' = newUsedKeys
  /\ flatMap' = EmptyObj
  /\ nodeIdx' = 1
  /\ keys' = <<>>
  /\ baseKeys' = <<>>
  /\ prevKeys' = keys
  /\ kgPc' = "loop"
  /\ UNCHANGED <<textNodes, notKeyGenVars>>

\* lines 52-67: one iteration of the loop
BuildStep ==
  /\ kgPc = "loop"
  /\ nodeIdx <= Len(textNodes)
  /\ LET node == textNodes[nodeIdx]
         base == baseKey(node)
         count == nextCount(usedKeys, base)
         key == IF ObjHas(usedKeys, base) THEN base \o "_" \o ToString(count) ELSE base
     IN  /\ usedKeys' = ObjSet(usedKeys, base, count)
         /\ flatMap' = ObjSet(flatMap, key, node.text)
         /\ keys' = Append(keys, key)
         /\ baseKeys' = Append(baseKeys, base)
  /\ nodeIdx' = nodeIdx + 1
  /\ UNCHANGED <<textNodes, prevKeys, call, kgPc, notKeyGenVars>>

\* line 69: return flatMap
BuildReturn ==
  /\ kgPc = "loop"
  /\ nodeIdx > Len(textNodes)
  /\ kgPc' = "returned"
  /\ UNCHANGED <<textNodes, nodeIdx, usedKeys, flatMap, keys, baseKeys, prevKeys, call, notKeyGenVars>>

InitKeyGen ==
  /\ IdleSave
  /\ IdleRequests
  /\ IdleCommands
  /\ IdleMerge
  /\ IdleTranslate
  /\ IdleNested
  /\ IdleDiff
  /\ textNodes \in TextNodeInputs
  /\ nodeIdx = 1
  /\ usedKeys = <<>>
  /\ flatMap = EmptyObj
  /\ keys = <<>>
  /\ baseKeys = <<>>
  /\ prevKeys = <<>>
  /\ call = 0
  /\ kgPc = "idle"

NextKeyGen == BuildEnter \/ BuildStep \/ BuildReturn

SpecKeyGen == InitKeyGen /\ [][NextKeyGen]_vars

-----------------------------------------------------------------------------
(* Claims about key generation, checked under SpecKeyGen *)

\* C1: buildFlatMap gives every text node a key of its own: the returned
\* object has as many entries as the input has nodes, and each node's text
\* is the value of the key the node was given.
C1_DistinctKeys ==
  kgPc = "returned" =>
    /\ Len(flatMap) = Len(textNodes)
    /\ \A j \in 1..Len(textNodes) :
         ObjHas(flatMap, keys[j]) /\ ObjGet(flatMap, keys[j]) = textNodes[j].text

\* how many of the nodes 1..j have the base key of node j
C2_Occurrence(j) == Cardinality({ i \in 1..j : baseKeys[i] = baseKeys[j] })

\* C2: among the nodes of one call with the same base key k the first gets
\* k and the n-th (n >= 2) gets k_n; the counter is empty when a call
\* starts, and a second call on the same input returns the same keys.
C2_CollisionNumbering ==
  /\ \A j \in 1..Len(keys) :
       keys[j] = IF C2_Occurrence(j) = 1 THEN baseKeys[j]
                 ELSE baseKeys[j] \o "_" \o ToString(C2_Occurrence(j))
  /\ (kgPc = "loop" /\ nodeIdx = 1) => usedKeys = <<>>
  /\ (kgPc = "returned" /\ call >= 2) => keys = prevKeys

C2_Witness ==
  /\ kgPc = "returned" /\ call = 2
  /\ Len(keys) = 3
  /\ keys = <<"footer.save", "footer.save_2", "footer.save_3">>

\* C3: a text whose first line normalizes to the empty token gets the leaf
\* "text": its base key is prefix.text, or text when the prefix is empty.
C3_EmptyTextPlaceholder ==
  \A j \in 1..Len(baseKeys) :
    LET node == textNodes[j]
        prefix == pathToPrefix(node.path)
    IN  normalizeName(firstLineOf(node.text)) = "" =>
          baseKeys[j] = IF prefix = "" THEN "text" ELSE prefix \o ".text"

\* the normalized forms of the segments path[i..], without the dropped ones
RECURSIVE C4_Kept(_, _)
C4_Kept(path, i) ==
  IF i > Len(path) THEN <<>>
  ELSE (IF nameToKey(path[i]) \in {"unknown", ""} THEN <<>> ELSE <<nameToKey(path[i])>>)
       \o C4_Kept(path, i + 1)

\* C4: the base key is the normalized forms of the last 4 path segments,
\* without those that are "unknown" or empty, in root-to-leaf order, then the
\* normalized text, all joined by "."; so it never starts with "." and has
\* at most 4 segments before the text.
C4_BaseKeyComposition ==
  \A j \in 1..Len(baseKeys) :
    LET path == textNodes[j].path
        from == IF Len(path) > 4 THEN Len(path) - 3 ELSE 1
        parts == split(baseKeys[j], ".")
    IN  /\ parts = C4_Kept(path, from) \o <<textToKey(textNodes[j].text)>>
        /\ Char(baseKeys[j], 1) # "."
        /\ Len(parts) <= 5

C4_Witness ==
  /\ kgPc = "returned"
  /\ Len(textNodes) = 1
  /\ textNodes[1].path = <<"Footer", "Nav Bar", "***", "Unknown", "Footer">>
  /\ baseKeys = <<"nav_bar.footer.save">>

-----------------------------------------------------------------------------
(* keyGen.js: flatToNested, nestedToFlat; locales.js: setNestedKey *)

\* a value of a NestedTree: a string, or an object (its entries in property order)
Str(s) == [str |-> s]
Obj(entries) == [obj |-> entries]

\* typeof v === 'string', typeof v === 'object'
IsStr(v) == DOMAIN v = {"str"}
IsObj(v) == DOMAIN v = {"obj"}

\* lines 86-88: a string met on the way down becomes { _value: string }
demote_none(child) == child
demote(child) ==
  IF IsStr(child) THEN Obj(<<[key |-> "_value", value |-> child]>>) ELSE child

\* lines 83-96 for one entry: the object `obj` after the walk along `ks` and
\* the assignment of the leaf
RECURSIVE flatToNestedInsert(_, _, _)
flatToNestedInsert(obj, ks, value) ==
  IF Len(ks) = 1 THEN ObjSet(obj, ks[1], Str(value))
  ELSE LET k == ks[1]
           child == IF ObjHas(obj, k) THEN demote(ObjGet(obj, k)) ELSE Obj(EmptyObj)
           next == IF IsObj(child) THEN child ELSE Obj(EmptyObj)
       IN  ObjSet(obj, k, Obj(flatToNestedInsert(next.obj, Tail(ks), value)))

\* locales.js, setNestedKey
RECURSIVE setNestedKeyAt(_, _, _)
setNestedKeyAt(obj, ks, value) ==
  IF Len(ks) = 1 THEN ObjSet(obj, ks[1], Str(value))
  ELSE LET k == ks[1]
           next == IF ObjHas(obj, k) /\ IsObj(ObjGet(obj, k))
                   THEN ObjGet(obj, k) ELSE Obj(EmptyObj)
       IN  ObjSet(obj, k, Obj(setNestedKeyAt(next.obj, Tail(ks), value)))

setNestedKey(obj, dotKey, value) == setNestedKeyAt(obj, split(dotKey, "."), value)

\* Object.assign(target, source)
ObjAssign(target, source) ==
  [i \in 1..Len(target) |->
     IF ObjHas(source, target[i].key)
     THEN [key |-> target[i].key, value |-> ObjGet(source, target[i].key)]
     ELSE target[i]]
    \o SelectSeq(source, LAMBDA e : ~ObjHas(target, e.key))

\* line 108
fullKeyOf_noPrefix(prefix, key) == key
fullKeyOf(prefix, key) == IF prefix # "" THEN prefix \o "." \o key ELSE key

\* nestedToFlat: its loop from entry i on, with the object `acc` built so far
RECURSIVE nestedToFlatFrom(_, _, _, _)
nestedToFlatFrom(entries, i, prefix, acc) ==
  IF i > Len(entries) THEN acc
  ELSE LET fullKey == fullKeyOf(prefix, entries[i].key)
           value == entries[i].value
       IN  nestedToFlatFrom(entries, i + 1, prefix,
             IF IsStr(value) THEN ObjSet(acc, fullKey, value.str)
             ELSE ObjAssign(acc, nestedToFlatFrom(value.obj, 1, fullKey, EmptyObj)))

nestedToFlat(entries, prefix) == nestedToFlatFrom(entries, 1, prefix, EmptyObj)

\* the dotted keys and the values the FlatMaps are made of
FlatKeys == {"a", "b", "a.b", "a.c", "a.b.c", "b.c"}
ValueAt(i) == IF i = 1 THEN "x" ELSE IF i = 2 THEN "y" ELSE "v" \o ToString(i)

FlatInputs ==
  { [i \in 1..Len(ks) |-> [key |-> ks[i], value |-> ValueAt(i)]] :
      ks \in { q \in SeqsUpTo(FlatKeys, MaxEntries) :
                 \A i, j \in 1..Len(q) : i # j => q[i] # q[j] } }

\* flatToNested, lines 79-97: one entry of the loop
FlatToNestedStep ==
  /\ ntPc = "toNested"
  /\ entryIdx <= Len(flat)
  /\ nested' = flatToNestedInsert(nested, split(flat[entryIdx].key, "."), flat[entryIdx].value)
  /\ entryIdx' = entryIdx + 1
  /\ UNCHANGED <<flat, roundTrip, tree, setIdx, treeFlat, ntPc, notNestedVars>>

\* flatToNested, line 99
FlatToNestedReturn ==
  /\ ntPc = "toNested"
  /\ entryIdx > Len(flat)
  /\ ntPc' = "nested"
  /\ UNCHANGED <<flat, entryIdx, nested, roundTrip, tree, setIdx, treeFlat, notNestedVars>>

\* nestedToFlat applied to the result of flatToNested
NestedToFlatCall ==
  /\ ntPc = "nested"
  /\ roundTrip' = nestedToFlat(nested, "")
  /\ ntPc' = "flat"
  /\ UNCHANGED <<flat, entryIdx, nested, tree, setIdx, treeFlat, notNestedVars>>

\* the entries of flat inserted into a tree by setNestedKey, one call each
SetNestedKeyCall ==
  /\ ntPc = "flat"
  /\ setIdx <= Len(flat)
  /\ tree' = setNestedKey(tree, flat[setIdx].key, flat[setIdx].value)
  /\ setIdx' = setIdx + 1
  /\ UNCHANGED <<flat, entryIdx, nested, roundTrip, treeFlat, ntPc, notNestedVars>>

\* nestedToFlat applied to the tree the setNestedKey calls built
TreeToFlatCall ==
  /\ ntPc = "flat"
  /\ setIdx > Len(flat)
  /\ treeFlat' = nestedToFlat(tree, "")
  /\ ntPc' = "done"
  /\ UNCHANGED <<flat, entryIdx, nested, roundTrip, tree, setIdx, notNestedVars>>

InitNested ==
  /\ IdleSave
  /\ IdleRequests
  /\ IdleCommands
  /\ IdleMerge
  /\ IdleTranslate
  /\ IdleKeyGen
  /\ IdleDiff
  /\ flat \in FlatInputs
  /\ entryIdx = 1
  /\ nested = EmptyObj
  /\ roundTrip = EmptyObj
  /\ tree = EmptyObj
  /\ setIdx = 1
  /\ treeFlat = EmptyObj
  /\ ntPc = "toNested"

NextNested ==
  \/ FlatToNestedStep
  \/ FlatToNestedReturn
  \/ NestedToFlatCall
  \/ SetNestedKeyCall
  \/ TreeToFlatCall

SpecNested == InitNested /\ [][NextNested]_vars

-----------------------------------------------------------------------------
(* Claims about the converter, checked under SpecNested *)

Missing == [missing |-> TRUE]

\* the value at the path `ks` of a tree value, Missing when there is none
RECURSIVE TreeGet(_, _)
TreeGet(v, ks) ==
  IF ks = <<>> THEN v
  ELSE IF IsObj(v) /\ ObjHas(v.obj, ks[1]) THEN TreeGet(ObjGet(v.obj, ks[1]), Tail(ks))
  ELSE Missing

\* the string leaves of an object, as a sequence
RECURSIVE LeavesOf(_)
LeavesOf(entries) ==
  IF entries = <<>> THEN <<>>
  ELSE (IF IsStr(entries[1].value) THEN <<entries[1].value.str>>
        ELSE LeavesOf(entries[1].value.obj))
       \o LeavesOf(Tail(entries))

Range(f) == { f[i] : i \in DOMAIN f }

\* { a: { _value: "x", b: "y" } }
C5_Tree ==
  <<[key |-> "a", value |->
      Obj(<<[key |-> "_value", value |-> Str("x")], [key |-> "b", value |-> Str("y")]>>)]>>

C5_Flat == <<[key |-> "a", value |-> "x"], [key |-> "a.b", value |-> "y"]>>

\* C5: setNestedKey demotes like flatToNested: the tree built by inserting
\* the entries of a FlatMap one by one with setNestedKey is the tree
\* flatToNested builds from it; for "a"->"x" then "a.b"->"y" it is
\* {a: {_value: "x", b: "y"}}, which flattens to {"a._value": "x", "a.b": "y"}.
C5_SetNestedKeyDemotes ==
  ntPc = "done" =>
    /\ tree = nested
    /\ flat = C5_Flat =>
         /\ tree = C5_Tree
         /\ Range(treeFlat) = { [key |-> "a._value", value |-> "x"],
                                [key |-> "a.b", value |-> "y"] }

\* C6: when flatToNested inserts a key one of whose intermediate segments
\* already holds a string, afterwards that segment holds an object, the
\* string is its child _value and the inserted value is at the key's path;
\* "a"->"x" then "a.b"->"y" give {a: {_value: "x", b: "y"}}.
C6_ConflictRule ==
  /\ [](flat = C5_Flat /\ ntPc # "toNested" => nested = C5_Tree)
  /\ [][ (ntPc = "toNested" /\ entryIdx' = entryIdx + 1) =>
           LET e == flat[entryIdx]
               ks == split(e.key, ".")
           IN  \A n \in 1..(Len(ks) - 1) :
                 LET old == TreeGet(Obj(nested), SubSeq(ks, 1, n))
                 IN  IsStr(old) =>
                       /\ IsObj(TreeGet(Obj(nested'), SubSeq(ks, 1, n)))
                       /\ TreeGet(Obj(nested'), SubSeq(ks, 1, n) \o <<"_value">>) = old
                       /\ TreeGet(Obj(nested'), ks) = Str(e.value) ]_vars

C6_Witness ==
  /\ flat = <<[key |-> "a", value |-> "x"], [key |-> "b", value |-> "y"],
              [key |-> "a.b.c", value |-> "v3"]>>
  /\ ntPc = "nested"
  /\ TreeGet(Obj(nested), <<"a", "_value">>) = Str("x")
  /\ TreeGet(Obj(nested), <<"a", "b", "c">>) = Str("v3")

\* C7: flatToNested loses no entry, whatever the order of the entries: the
\* tree has as many string leaves as the FlatMap has entries, and every
\* value of the FlatMap is the value of a leaf.
C7_NoEntryLost ==
  ntPc # "toNested" /\ ntPc # "idle" =>
    /\ Len(LeavesOf(nested)) = Len(flat)
    /\ \A i \in 1..Len(flat) : flat[i].value \in Range(LeavesOf(nested))

\* no key of the FlatMap is a dotted prefix of another one
C8_NoPrefixCollision ==
  \A i, j \in 1..Len(flat) :
    LET p == split(flat[i].key, ".")
        q == split(flat[j].key, ".")
    IN  i # j => ~(Len(p) < Len(q) /\ SubSeq(q, 1, Len(p)) = p)

\* C8: for a FlatMap in which no key is a dotted prefix of another,
\* nestedToFlat(flatToNested(flat)) has the keys and the values of flat.
C8_RoundTrip ==
  (ntPc \in {"flat", "done"} /\ C8_NoPrefixCollision) =>
    /\ Len(roundTrip) = Len(flat)
    /\ Range(roundTrip) = Range(flat)

C8_Witness ==
  /\ ntPc = "flat"
  /\ ObjKeys(flat) = {"a.b", "a.c", "b.c"}
  /\ Len(roundTrip) = 3

-----------------------------------------------------------------------------
(* locales.js: diffFlatMaps *)

\* the properties every object inherits from Object.prototype whose names
\* nameToKey can produce
PrototypeKeys == {"constructor"}

\* lines 108 and 116, key in obj: own or inherited
InObj(obj, k) == ObjHas(obj, k) \/ k \in PrototypeKeys

\* line 110, cached[key] !== value
valueDiffers(a, b) == a # b

\* line 110 for a property that may be inherited: an inherited one is a
\* function, which differs from every string
propertyDiffers(obj, k, value) ==
  IF ObjHas(obj, k) THEN valueDiffers(ObjGet(obj, k), value) ELSE TRUE

\* lines 107-113: the loop over the entries of current from entry i on;
\* acc holds added and changed as built so far
RECURSIVE diffCurrentFrom(_, _, _, _)
diffCurrentFrom(cur, old, i, acc) ==
  IF i > Len(cur) THEN acc
  ELSE LET key == cur[i].key
           value == cur[i].value
       IN  diffCurrentFrom(cur, old, i + 1,
             IF ~InObj(old, key)
             THEN [acc EXCEPT !.added = ObjSet(acc.added, key, value)]
             ELSE IF propertyDiffers(old, key, value)
             THEN [acc EXCEPT !.changed = ObjSet(acc.changed, key, value)]
             ELSE acc)

\* lines 115-119: the loop over the keys of cached from entry i on
RECURSIVE diffCachedFrom(_, _, _, _)
diffCachedFrom(cur, old, i, removedAcc) ==
  IF i > Len(old) THEN removedAcc
  ELSE diffCachedFrom(cur, old, i + 1,
         IF ~InObj(cur, old[i].key) THEN Append(removedAcc, old[i].key) ELSE removedAcc)

diffFlatMaps(cur, old) ==
  LET ac == diffCurrentFrom(cur, old, 1, [added |-> EmptyObj, changed |-> EmptyObj])
  IN  [added |-> ac.added, changed |-> ac.changed,
       removed |-> diffCachedFrom(cur, old, 1, <<>>)]

\* the FlatMaps diffFlatMaps is given
DiffKeys == {"a", "b", "c", "constructor"}
DiffValues == {"1", "2", "3"}

DiffInputs ==
  { m \in SeqsUpTo([key : DiffKeys, value : DiffValues], MaxDiffEntries) :
      \A i, j \in 1..Len(m) : i # j => m[i].key # m[j].key }

\* one call of diffFlatMaps(current, cached)
DiffCall ==
  /\ dfPc = "call"
  /\ LET d == diffFlatMaps(current, cached)
     IN  /\ added' = d.added
         /\ changed' = d.changed
         /\ removed' = d.removed
  /\ dfPc' = "returned"
  /\ UNCHANGED <<current, cached, notDiffVars>>

InitDiff ==
  /\ IdleSave
  /\ IdleRequests
  /\ IdleCommands
  /\ IdleMerge
  /\ IdleTranslate
  /\ IdleKeyGen
  /\ IdleNested
  /\ current \in DiffInputs
  /\ cached \in DiffInputs
  /\ added = EmptyObj
  /\ changed = EmptyObj
  /\ removed = <<>>
  /\ dfPc = "call"

NextDiff == DiffCall

SpecDiff == InitDiff /\ [][NextDiff]_vars

-----------------------------------------------------------------------------
(* Claims about the diff, checked under SpecDiff *)

\* C9: diffFlatMaps(current, cached) puts a key in added iff it is in
\* current and not in cached, in changed iff it is in both with different
\* values, in removed iff it is in cached and not in current, and a key in
\* both with the same value nowhere; added and changed carry the value of
\* current; a FlatMap diffed against itself gives three empty results.
C9_DiffClassifies ==
  dfPc = "returned" =>
    /\ \A k \in DiffKeys \cup ObjKeys(added) \cup ObjKeys(changed) \cup Range(removed) :
         /\ ObjHas(added, k) <=> (ObjHas(current, k) /\ ~ObjHas(cached, k))
         /\ ObjHas(changed, k) <=>
              (ObjHas(current, k) /\ ObjHas(cached, k)
                 /\ ObjGet(current, k) # ObjGet(cached, k))
         /\ k \in Range(removed) <=> (ObjHas(cached, k) /\ ~ObjHas(current, k))
         /\ ObjHas(added, k) => ObjGet(added, k) = ObjGet(current, k)
         /\ ObjHas(changed, k) => ObjGet(changed, k) = ObjGet(current, k)
    /\ Cardinality(Range(removed)) = Len(removed)
    /\ current = cached => (added = EmptyObj /\ changed = EmptyObj /\ removed = <<>>)

\* the classification of C9 for FlatMaps none of whose keys is the name of
\* an inherited property
C9_OwnNamesClassified ==
  (ObjKeys(current) \cup ObjKeys(cached)) \cap PrototypeKeys = {} => C9_DiffClassifies

-----------------------------------------------------------------------------
(* translator.js: Translator.translateFlatMap *)

TRANSLATE_BATCH_SIZE == 50
CONFIDENCE_BATCH_SIZE == 80

\* line 11, the keys of LANGUAGES
LANGUAGES == {"ko", "zh", "ja"}

\* a translated value, as a backend that follows the prompt returns it
translationOf(lang, value) == lang \o ":" \o value

\* the FlatMap of n entries given to translateFlatMap
TrInput(n) == [i \in 1..n |-> [key |-> "k" \o ToString(i), value |-> "en" \o ToString(i)]]

\* sizes that give no batch, one batch, a full batch, a full batch and a
\* last one of up to MaxLastBatch entries, and two scoring batches
TrSizes ==
  {0, 1, 2, TRANSLATE_BATCH_SIZE, CONFIDENCE_BATCH_SIZE + 1} \cup
  { TRANSLATE_BATCH_SIZE + r : r \in 1..MaxLastBatch }

\* entries.slice(i, i + size), i counted from 0
sliceFrom(entries, i, size) == SubSeq(entries, i + 1, Min(i + size, Len(entries)))

\* a score, or null
Num(n) == [num |-> n]
Null == [null |-> TRUE]

\* the parsed JSON of a translation response to `batch`:
\*   unchanged  the first `unchanged` values are those of the batch, the
\*              others are translated
\*   dropFirst  the first key of the batch is missing
\*   extraKey   a key that is not in the batch is added
parsedTranslation(batch, lang, shape) ==
  LET body == [i \in 1..Len(batch) |->
                 [key |-> batch[i].key,
                  value |-> IF i <= shape.unchanged THEN batch[i].value
                            ELSE translationOf(lang, batch[i].value)]]
  IN  IF shape.kind = "dropFirst" THEN Tail(body)
      ELSE IF shape.kind = "extraKey" THEN Append(body, [key |-> "extra", value |-> "?"])
      ELSE body

\* the numbers of unchanged values around the 80% threshold of a batch
UnchangedChoices(total) ==
  {0, (4 * total) \div 5, (4 * total) \div 5 + 1} \cap 0..total

\* what the backend may answer to the request of a translation batch
TranslationResponses(batch) ==
  [kind : {"error"}, status : {401, 429, 500}]
    \cup { [kind |-> "unparseable"] }
    \cup [kind : {"parsed"}, unchanged : UnchangedChoices(Len(batch))]
    \cup [kind : {"dropFirst", "extraKey"}, unchanged : {0}]

\* lines 121-123: the entries of parsed whose value is the one of the batch
unchangedCount(parsed, batch) ==
  Cardinality({ i \in 1..Len(parsed) :
                  ObjHas(batch, parsed[i].key)
                    /\ parsed[i].value = ObjGet(batch, parsed[i].key) })

\* line 127: unchangedCount / total > 0.8
tooManyUnchanged(parsed, batch) == 5 * unchangedCount(parsed, batch) > 4 * Len(batch)

\* lines 127 and 135: retryCount < 2
canRetry_thrice(retries) == retries < 3
canRetry(retries) == retries < 2

\* line 140: return batch
fallbackOf_nothing(batch) == <<>>
fallbackOf(batch) == batch

\* lines 118-141: what _translateBatch does with a response that is not an
\* API error: a retry, or the return of an object
batchOutcome(batch, lang, resp, retries) ==
  IF resp.kind = "unparseable"
  THEN IF canRetry(retries) THEN [retry |-> TRUE] ELSE [returns |-> fallbackOf(batch)]
  ELSE LET parsed == parsedTranslation(batch, lang, resp)
       IN  IF tooManyUnchanged(parsed, batch) /\ canRetry(retries)
           THEN [retry |-> TRUE] ELSE [returns |-> parsed]

\* lines 45-50: the call starts; an unknown language throws
TranslateEnter ==
  /\ trPc = "idle"
  /\ IF targetLang \notin LANGUAGES
     THEN /\ trPc' = "thrown"
          /\ trError' = "unsupported"
     ELSE /\ trPc' = IF Len(trFlatMap) > 0 THEN "translate" ELSE "save"
          /\ trError' = trError
  /\ translatedResult' = EmptyObj
  /\ confidenceResult' = EmptyObj
  /\ batchStart' = 0
  /\ retryCount' = 0
  /\ scoreStart' = 0
  /\ UNCHANGED <<trFlatMap, targetLang, batchResponses, translated, confidenceFile,
                 notTranslatorVars>>

\* lines 53-62 and _translateBatch: the request of the batch at batchStart
\* is answered
TranslateBatchResponse ==
  /\ trPc = "translate"
  /\ LET batch == sliceFrom(trFlatMap, batchStart, TRANSLATE_BATCH_SIZE)
     IN  \E resp \in TranslationResponses(batch) :
           /\ batchResponses' = IF retryCount = 0 THEN <<resp>>
                                ELSE Append(batchResponses, resp)
           /\ IF resp.kind = "error"
              THEN \* lines 111-113, _handleApiError: every API error is thrown
                   /\ trPc' = "thrown"
                   /\ trError' = IF resp.status = 401 THEN "auth"
                                 ELSE IF resp.status = 429 THEN "rateLimit" ELSE "api"
                   /\ UNCHANGED <<batchStart, retryCount, translatedResult, translated>>
              ELSE LET out == batchOutcome(batch, targetLang, resp, retryCount)
                   IN  IF out = [retry |-> TRUE]
                       THEN /\ retryCount' = retryCount + 1
                            /\ UNCHANGED <<batchStart, translatedResult, translated,
                                           trPc, trError>>
                       ELSE /\ translated' = out.returns
                            /\ translatedResult' = ObjAssign(translatedResult, out.returns)
                            /\ batchStart' = batchStart + TRANSLATE_BATCH_SIZE
                            /\ retryCount' = 0
                            /\ trPc' = IF batchStart + TRANSLATE_BATCH_SIZE < Len(trFlatMap)
                                       THEN "translate" ELSE "score"
                            /\ trError' = trError
  /\ UNCHANGED <<trFlatMap, targetLang, scoreStart, confidenceResult, confidenceFile,
                 notTranslatorVars>>

\* what the backend may answer to a scoring request: an error, text that
\* does not parse, or a JSON object of scores (in range or out of range)
ScoreResponses == {"error", "unparseable", "scores", "outOfRange"}

\* lines 170-188: the scores _scoreBatch returns for enBatch; a parsed
\* response is returned as it is
scoresOf(enBatch, resp) ==
  [i \in 1..Len(enBatch) |->
     [key |-> enBatch[i].key,
      value |-> IF resp = "scores" THEN Num(90)
                ELSE IF resp = "outOfRange" THEN Num(150)
                ELSE Null]]

\* lines 68-75 and _scoreBatch: the scoring request of the batch at
\* scoreStart is answered
ScoreBatchResponse ==
  /\ trPc = "score"
  /\ \E resp \in ScoreResponses :
       confidenceResult' =
         ObjAssign(confidenceResult,
                   scoresOf(sliceFrom(trFlatMap, scoreStart, CONFIDENCE_BATCH_SIZE), resp))
  /\ scoreStart' = scoreStart + CONFIDENCE_BATCH_SIZE
  /\ trPc' = IF scoreStart + CONFIDENCE_BATCH_SIZE < Len(trFlatMap) THEN "score" ELSE "save"
  /\ UNCHANGED <<trFlatMap, targetLang, batchStart, retryCount, translatedResult,
                 batchResponses, translated, confidenceFile, trError, notTranslatorVars>>

\* lines 216-218: the scores that are not null
withoutNull_keep(scores) == scores
withoutNull(scores) == SelectSeq(scores, LAMBDA e : e.value # Null)

\* lines 211-219: the store after the merge of the scores of `lang`
mergedConfidence(file, lang, scores) ==
  LET all == IF file.state = "ok" THEN file.all ELSE EmptyObj
      prior == IF ObjHas(all, lang) THEN ObjGet(all, lang) ELSE EmptyObj
  IN  ObjSet(all, lang, ObjAssign(prior, withoutNull(scores)))

\* lines 77-81: an error of the scoring stage is caught and logged, and
\* translateFlatMap goes on to its return
afterScoringError_rethrown == "thrown"
afterScoringError == "returned"

\* lines 76-81: _saveConfidence writes the store, or throws and is caught;
\* then translateFlatMap returns translatedResult
SaveConfidenceAndReturn ==
  /\ trPc = "save"
  /\ \/ /\ confidenceFile' =
             [state |-> "ok",
              all |-> mergedConfidence(confidenceFile, targetLang, confidenceResult)]
        /\ trPc' = "returned"
     \/ /\ confidenceFile' = confidenceFile
        /\ trPc' = afterScoringError
  /\ UNCHANGED <<trFlatMap, targetLang, batchStart, retryCount, translatedResult,
                 batchResponses, translated, scoreStart, confidenceResult, trError,
                 notTranslatorVars>>

\* the confidence file before the call: none, unreadable, or scores of an
\* earlier run
ConfidenceFiles ==
  { [state |-> "absent"], [state |-> "corrupt"],
    [state |-> "ok",
     all |-> <<[key |-> "ko", value |-> <<[key |-> "k1", value |-> Num(70)],
                                          [key |-> "old", value |-> Num(40)]>>],
               [key |-> "zh", value |-> <<[key |-> "k1", value |-> Num(60)]>>]>>] }

InitTranslate ==
  /\ IdleSave
  /\ IdleRequests
  /\ IdleCommands
  /\ IdleMerge
  /\ IdleKeyGen
  /\ IdleNested
  /\ IdleDiff
  /\ trFlatMap \in { TrInput(n) : n \in TrSizes }
  /\ targetLang \in {"ko", "xx"}
  /\ confidenceFile \in ConfidenceFiles
  /\ batchStart = 0
  /\ retryCount = 0
  /\ translatedResult = EmptyObj
  /\ batchResponses = <<>>
  /\ translated = EmptyObj
  /\ scoreStart = 0
  /\ confidenceResult = EmptyObj
  /\ trError = "none"
  /\ trPc = "idle"

NextTranslate ==
  \/ TranslateEnter
  \/ TranslateBatchResponse
  \/ ScoreBatchResponse
  \/ SaveConfidenceAndReturn

SpecTranslate == InitTranslate /\ [][NextTranslate]_vars

\* a call for a supported language with no confidence file yet
InitTranslateFair ==
  /\ InitTranslate
  /\ targetLang = "ko"
  /\ confidenceFile = [state |-> "absent"]

\* the backend answers every request, and the call goes on after each answer
SpecTranslateFair ==
  InitTranslateFair /\ [][NextTranslate]_vars /\ WF_vars(NextTranslate)

-----------------------------------------------------------------------------
(* Claims about the translator, checked under SpecTranslate *)

\* C10: when translateFlatMap returns, the map it returns has exactly the
\* keys of the FlatMap it was given.
C10_SameKeys ==
  trPc = "returned" => ObjKeys(translatedResult) = ObjKeys(trFlatMap)

\* the batch the last finished _translateBatch call was given
LastBatch ==
  sliceFrom(trFlatMap, batchStart - TRANSLATE_BATCH_SIZE, TRANSLATE_BATCH_SIZE)

\* the response does not pass the validation of a batch of `total` entries:
\* it does not parse, or more than 80% of the entries are the English ones
FailsValidation(resp, total) ==
  IF resp.kind = "unparseable" THEN TRUE
  ELSE IF resp.kind = "error" THEN FALSE
  ELSE 5 * resp.unchanged > 4 * total

\* C11: when the third (last permitted) attempt of a batch still fails
\* validation, no error is raised, the loop goes on, and the output of the
\* batch is exactly the English entries of the batch.
C11_TerminalFallback ==
  (Len(batchResponses) = 3 /\ retryCount = 0 /\ trPc # "thrown"
     /\ FailsValidation(batchResponses[3], Len(LastBatch))) =>
    /\ trPc \in {"translate", "score", "save", "returned"}
    /\ translated = LastBatch

\* C12, as stated: a batch two consecutive responses of which were
\* unparseable has the English entries of the batch as its output.
C12_TwoUnparseable ==
  (trPc # "thrown" /\ retryCount = 0 /\ batchStart > 0
     /\ \E i \in 1..(Len(batchResponses) - 1) :
          /\ batchResponses[i].kind = "unparseable"
          /\ batchResponses[i + 1].kind = "unparseable") =>
    translated = LastBatch

\* C12, amended: a batch whose response was unparseable on three
\* consecutive attempts (the first request and both retries) is finished
\* without an error, and its output is exactly the English entries of the
\* batch.
C12_ThreeUnparseable ==
  (Len(batchResponses) = 3
     /\ \A i \in 1..3 : batchResponses[i].kind = "unparseable") =>
    /\ trPc # "thrown"
    /\ trError = "none"
    /\ retryCount = 0
    /\ translated = LastBatch

C12_Witness ==
  /\ Len(trFlatMap) = TRANSLATE_BATCH_SIZE + 1
  /\ batchStart = 2 * TRANSLATE_BATCH_SIZE
  /\ Len(batchResponses) = 3
  /\ \A i \in 1..3 : batchResponses[i].kind = "unparseable"
  /\ translated = <<[key |-> "k51", value |-> "en51"]>>
  /\ trPc = "returned"

\* the values batchStart takes
BatchStarts == {0, TRANSLATE_BATCH_SIZE}

C14_ScoringIndependent ==
  [][ (trPc \in {"score", "save"}) =>
          /\ translatedResult' = translatedResult
          /\ trPc' \in {"score", "save", "returned"}
          /\ trError' = trError ]_vars

\* a call that returns its two translations after a scoring request that
\* gave no scores and a save that wrote nothing
C14_Witness ==
  /\ trPc = "returned"
  /\ trError = "none"
  /\ Len(trFlatMap) = 2
  /\ confidenceFile = [state |-> "absent"]
  /\ \A i \in 1..2 : confidenceResult[i].value = Null
  /\ translatedResult = <<[key |-> "k1", value |-> "ko:en1"],
                          [key |-> "k2", value |-> "ko:en2"]>>

\* C15: every score in the confidence file is an integer from 0 to 100.
C15_ScoresInRange ==
  confidenceFile.state = "ok" =>
    \A l \in 1..Len(confidenceFile.all) :
      \A i \in 1..Len(confidenceFile.all[l].value) :
        confidenceFile.all[l].value[i].value \in { Num(n) : n \in 0..100 }

\* C16: a save of the scores of targetLang leaves the maps of the other
\* languages as they were; in the map of targetLang a key with a new
\* non-null score has that score, every other key has its prior score or, if
\* it had none, is absent; no null is stored.
C16_ConfidenceMerge ==
  [][ (trPc = "save" /\ confidenceFile' # confidenceFile) =>
        LET old == IF confidenceFile.state = "ok" THEN confidenceFile.all ELSE <<>>
            new == confidenceFile'.all
            prior == IF \E e \in Range(old) : e.key = targetLang
                     THEN (CHOOSE e \in Range(old) : e.key = targetLang).value ELSE <<>>
            now == (CHOOSE e \in Range(new) : e.key = targetLang).value
            scored == { e \in Range(confidenceResult) : e.value # Null }
        IN  /\ confidenceFile'.state = "ok"
            /\ Cardinality({ e \in Range(new) : e.key = targetLang }) = 1
            /\ { e \in Range(new) : e.key # targetLang }
                 = { e \in Range(old) : e.key # targetLang }
            /\ Range(now) =
                 scored \cup { e \in Range(prior) : \A f \in scored : f.key # e.key }
            /\ Cardinality({ e.key : e \in Range(now) }) = Len(now) ]_vars

\* 81 keys: the first scoring batch (k1..k80) gave nulls, the second (k81)
\* a score; k1 and old keep their prior scores and zh is as it was
C16_Witness ==
  /\ trPc = "returned"
  /\ Len(trFlatMap) = 81
  /\ confidenceFile =
       [state |-> "ok",
        all |-> <<[key |-> "ko", value |-> <<[key |-> "k1", value |-> Num(70)],
                                             [key |-> "old", value |-> Num(40)],
                                             [key |-> "k81", value |-> Num(90)]>>],
                  [key |-> "zh", value |-> <<[key |-> "k1", value |-> Num(60)]>>]>>]

-----------------------------------------------------------------------------
(* locales.js: setNestedKey and removeNestedKey on a locale document *)

\* delete obj[k]
ObjDelete(obj, k) == SelectSeq(obj, LAMBDA e : e.key # k)

\* line 45: !current[keys[i]] || typeof current[keys[i]] !== 'object'
stopsAt_missing(obj, k) == ~ObjHas(obj, k)
stopsAt(obj, k) == ~ObjHas(obj, k) \/ ~IsObj(ObjGet(obj, k))

\* lines 46-48: the object walked into is edited in place and stays the
\* property k of its parent
keepChild_pruned(obj, k, entries) ==
  IF entries = <<>> THEN ObjDelete(obj, k) ELSE ObjSet(obj, k, Obj(entries))
keepChild(obj, k, entries) == ObjSet(obj, k, Obj(entries))

\* lines 44-48: the walk along ks and the delete
RECURSIVE removeNestedKeyAt(_, _)
removeNestedKeyAt(obj, ks) ==
  IF Len(ks) = 1 THEN ObjDelete(obj, ks[1])
  ELSE IF stopsAt(obj, ks[1]) THEN obj
  ELSE LET child == ObjGet(obj, ks[1])
           entries == IF IsObj(child) THEN child.obj ELSE EmptyObj
       IN  keepChild(obj, ks[1], removeNestedKeyAt(entries, Tail(ks)))

removeNestedKey(obj, dotKey) == removeNestedKeyAt(obj, split(dotKey, "."))

\* flatToNested as a function of the FlatMap: its loop from entry i on
RECURSIVE flatToNestedFrom(_, _, _)
flatToNestedFrom(entries, i, acc) ==
  IF i > Len(entries) THEN acc
  ELSE flatToNestedFrom(entries, i + 1,
         flatToNestedInsert(acc, split(entries[i].key, "."), entries[i].value))

flatToNested(entries) == flatToNestedFrom(entries, 1, EmptyObj)

\* the documents the calls start from: those flatToNested writes
DocInputs ==
  { flatToNested(f) : f \in { g \in FlatInputs : Len(g) <= MaxDocEntries } }

\* the dotted keys the calls are given
MergeKeys == FlatKeys

\* one call setNestedKey(doc, k, "new")
SetKeyCall ==
  /\ mgPc = "edit"
  /\ opCount < MaxOps
  /\ \E k \in MergeKeys :
       /\ doc' = setNestedKey(doc, k, "new")
       /\ lastOp' = [op |-> "set", key |-> k]
  /\ prevDoc' = doc
  /\ opCount' = opCount + 1
  /\ UNCHANGED <<mgPc, notMergeVars>>

\* one call removeNestedKey(doc, k)
RemoveKeyCall ==
  /\ mgPc = "edit"
  /\ opCount < MaxOps
  /\ \E k \in MergeKeys :
       /\ doc' = removeNestedKey(doc, k)
       /\ lastOp' = [op |-> "remove", key |-> k]
  /\ prevDoc' = doc
  /\ opCount' = opCount + 1
  /\ UNCHANGED <<mgPc, notMergeVars>>

InitMerge ==
  /\ IdleSave
  /\ IdleRequests
  /\ IdleCommands
  /\ IdleKeyGen
  /\ IdleNested
  /\ IdleDiff
  /\ IdleTranslate
  /\ doc \in DocInputs
  /\ prevDoc = doc
  /\ lastOp = [op |-> "none", key |-> ""]
  /\ opCount = 0
  /\ mgPc = "edit"

NextMerge ==
  \/ SetKeyCall
  \/ RemoveKeyCall

SpecMerge == InitMerge /\ [][NextMerge]_vars

-----------------------------------------------------------------------------
(* Claims about the merge primitives, checked under SpecMerge *)

\* the string leaves of an object with their paths
RECURSIVE LeafPaths(_, _)
LeafPaths(entries, prefix) ==
  UNION { IF IsStr(e.value)
          THEN { [path |-> prefix \o <<e.key>>, value |-> e.value.str] }
          ELSE LeafPaths(e.value.obj, prefix \o <<e.key>>) : e \in Range(entries) }

\* the segments of the key of the last call
LastKey == split(lastOp.key, ".")

\* every segment of ks before the last one leads to an object of the tree
ParentExists(entries, ks) ==
  \A n \in 1..(Len(ks) - 1) : IsObj(TreeGet(Obj(entries), SubSeq(ks, 1, n)))

\* C17: after setNestedKey(tree, k, v) or removeNestedKey(tree, k), every
\* leaf path other than k that the tree had before the call is still there
\* with the same value.
C17_UntouchedKept ==
  opCount > 0 =>
    \A l \in LeafPaths(prevDoc, <<>>) :
      l.path # LastKey => l \in LeafPaths(doc, <<>>)

\* C18: removeNestedKey with a key one of whose intermediate segments is
\* missing or is not an object, or whose leaf is absent under an existing
\* parent, leaves the tree as it was.
C18_DeleteNoOp ==
  (lastOp.op = "remove"
     /\ (~ParentExists(prevDoc, LastKey) \/ TreeGet(Obj(prevDoc), LastKey) = Missing)) =>
    doc = prevDoc

\* removeNestedKey(doc, "a.b.c") on {a: "x", b: "y"}, where a is a string
C18_Witness ==
  /\ lastOp = [op |-> "remove", key |-> "a.b.c"]
  /\ prevDoc = <<[key |-> "a", value |-> Str("x")], [key |-> "b", value |-> Str("y")]>>
  /\ doc = prevDoc

\* C19: when removeNestedKey deletes the only child of an object, that
\* object stays in the tree as an empty object, and so do its ancestors.
C19_NoPruning ==
  (lastOp.op = "remove" /\ Len(LastKey) >= 2 /\ ParentExists(prevDoc, LastKey)
     /\ ObjKeys(TreeGet(Obj(prevDoc), SubSeq(LastKey, 1, Len(LastKey) - 1)).obj)
          = {LastKey[Len(LastKey)]}) =>
    /\ TreeGet(Obj(doc), SubSeq(LastKey, 1, Len(LastKey) - 1)) = Obj(<<>>)
    /\ ParentExists(doc, LastKey)

\* removeNestedKey(doc, "a.b.c") on {a: {b: {c: "x"}}} gives {a: {b: {}}}
C19_Witness ==
  /\ lastOp = [op |-> "remove", key |-> "a.b.c"]
  /\ prevDoc = <<[key |-> "a", value |->
                   Obj(<<[key |-> "b", value |-> Obj(<<[key |-> "c", value |-> Str("x")]>>)]>>)]>>
  /\ doc = <<[key |-> "a", value |-> Obj(<<[key |-> "b", value |-> Obj(<<>>)]>>)]>>

-----------------------------------------------------------------------------
(* server.js: the commands extract, translate, update and sync *)

\* line 591
TARGET_LANGS == <<"ko", "zh", "ja">>

\* the environment variables the commands read
EnvVars == {"FIGMA_TOKEN", "FIGMA_FILE_ID", "ANTHROPIC_API_KEY"}

\* requireEnv, lines 596-603: the keys given that are not set; when there is
\* one the process ends with an error that lists them
requireEnv(ks) == { k \in ks : k \in missingEnv }

\* buildFlatMap as a function of the text nodes: its loop from node i on
RECURSIVE buildFlatMapFrom(_, _, _, _)
buildFlatMapFrom(nodes, i, used, acc) ==
  IF i > Len(nodes) THEN acc
  ELSE LET node == nodes[i]
           base == baseKey(node)
           count == nextCount(used, base)
           key == IF ObjHas(used, base) THEN base \o "_" \o ToString(count) ELSE base
       IN  buildFlatMapFrom(nodes, i + 1, ObjSet(used, base, count),
                            ObjSet(acc, key, node.text))

buildFlatMap(nodes) == buildFlatMapFrom(nodes, 1, <<>>, EmptyObj)

\* the text nodes of the designs: a text in a frame, the same text in other
\* letters, a text named like the frame, and a text outside any frame whose
\* key is a name every object inherits
CommandNodes ==
  { [text |-> "Save", path |-> <<"Footer">>], [text |-> "SAVE", path |-> <<"Footer">>],
    [text |-> "Footer", path |-> <<>>], [text |-> "Constructor", path |-> <<>>] }

\* the FlatMaps of the designs of this run and of the run before
CurrentFlats == { buildFlatMap(ns) : ns \in SeqsUpTo(CommandNodes, MaxCmdNodes) }
CachedFlats == { buildFlatMap(ns) : ns \in SeqsUpTo(CommandNodes, 1) }

\* a backend answer to every key: the FlatMap with each value translated
translatedAll(fm, lang) ==
  [i \in 1..Len(fm) |-> [key |-> fm[i].key, value |-> translationOf(lang, fm[i].value)]]

\* the maps translateFlatMap can return for a FlatMap of one batch: what
\* _translateBatch returns for some response on a first or a last attempt
translateOutcomes(fm, lang) ==
  IF fm = <<>> THEN { EmptyObj }
  ELSE { batchOutcome(fm, lang, x[1], x[2]).returns :
           x \in { y \in (TranslationResponses(fm) \X {0, 2}) :
                     /\ y[1].kind # "error"
                     /\ batchOutcome(fm, lang, y[1], y[2]) # [retry |-> TRUE] } }

\* the entries of a FlatMap set one by one, from entry i on
RECURSIVE setNestedKeysFrom(_, _, _)
setNestedKeysFrom(obj, entries, i) ==
  IF i > Len(entries) THEN obj
  ELSE setNestedKeysFrom(setNestedKey(obj, entries[i].key, entries[i].value), entries, i + 1)

\* the keys of a list removed one by one, from key i on
removeNestedKeysFrom_none(obj, dotKeys, i) == obj
RECURSIVE removeNestedKeysFrom(_, _, _)
removeNestedKeysFrom(obj, dotKeys, i) ==
  IF i > Len(dotKeys) THEN obj
  ELSE removeNestedKeysFrom(removeNestedKey(obj, dotKeys[i]), dotKeys, i + 1)

\* what the actions of a run leave alone: the environment, the files before
\* the run, and the run before
runFrame == <<missingEnv, before, prevRun>>

\* cmdExtract, lines 609-631: without its variables the process ends; else
\* the design is fetched, or fetchFigmaDocument throws; en.json and then the
\* cache are written from the FlatMap of the design
CmdExtract ==
  /\ cmd \in {"extract", "sync"}
  /\ cmPc = "start"
  /\ LET missing == requireEnv({"FIGMA_TOKEN", "FIGMA_FILE_ID"})
     IN  IF missing # {}
         THEN /\ cmPc' = "exit"
              /\ exitMissing' = missing
              /\ UNCHANGED <<enDoc, cache, fileWrites, backendCalls>>
         ELSE /\ backendCalls' = Append(backendCalls, "figma")
              /\ UNCHANGED exitMissing
              /\ \/ /\ cmPc' = "thrown"
                    /\ UNCHANGED <<enDoc, cache, fileWrites>>
                 \/ /\ enDoc' = flatToNested(currentFlat)
                    /\ cache' = currentFlat
                    /\ fileWrites' = fileWrites \o <<"en", "cache">>
                    /\ cmPc' = IF cmd = "sync" THEN "translate" ELSE "done"
  /\ UNCHANGED <<cmd, langDocs, currentFlat, submitted, removedKeys, langIdx, returnedMaps,
                 runFrame, notCommandVars>>

\* cmdTranslate, lines 638-646, run alone or as the second half of cmdSync
\* (line 745): without its variable the process ends; en.json is read and
\* flattened; an empty map ends the process
CmdTranslateStart ==
  /\ \/ cmd = "translate" /\ cmPc = "start"
     \/ cmd = "sync" /\ cmPc = "translate"
  /\ LET missing == requireEnv({"ANTHROPIC_API_KEY"})
     IN  IF missing # {}
         THEN /\ cmPc' = "exit"
              /\ exitMissing' = missing
              /\ UNCHANGED submitted
         ELSE /\ submitted' = nestedToFlat(enDoc, "")
              /\ cmPc' = IF submitted' = EmptyObj THEN "exit" ELSE "langs"
              /\ UNCHANGED exitMissing
  /\ UNCHANGED <<cmd, enDoc, langDocs, cache, currentFlat, removedKeys, langIdx,
                 returnedMaps, fileWrites, backendCalls, runFrame, notCommandVars>>

\* cmdTranslate, lines 648-656: one language is translated and its
\* document written, or translateFlatMap throws
CmdTranslateLang ==
  /\ cmd \in {"translate", "sync"}
  /\ cmPc = "langs"
  /\ LET lang == TARGET_LANGS[langIdx]
     IN  /\ backendCalls' = Append(backendCalls, lang)
         /\ \/ \E out \in translateOutcomes(submitted, lang) :
                  /\ langDocs' = ObjSet(langDocs, lang, flatToNested(out))
                  /\ fileWrites' = Append(fileWrites, lang)
                  /\ returnedMaps' = Append(returnedMaps, out)
                  /\ langIdx' = langIdx + 1
                  /\ cmPc' = IF langIdx = Len(TARGET_LANGS) THEN "done" ELSE "langs"
            \/ /\ cmPc' = "thrown"
               /\ UNCHANGED <<langDocs, fileWrites, returnedMaps, langIdx>>
  /\ UNCHANGED <<cmd, enDoc, cache, currentFlat, submitted, removedKeys, exitMissing,
                 runFrame, notCommandVars>>

\* cmdUpdate, lines 663-669: without its variables the process ends; else
\* the design is fetched, or fetchFigmaDocument throws
CmdUpdateFetch ==
  /\ cmd = "update"
  /\ cmPc = "start"
  /\ LET missing == requireEnv(EnvVars)
     IN  IF missing # {}
         THEN /\ cmPc' = "exit"
              /\ exitMissing' = missing
              /\ UNCHANGED backendCalls
         ELSE /\ backendCalls' = Append(backendCalls, "figma")
              /\ cmPc' \in {"diff", "thrown"}
              /\ UNCHANGED exitMissing
  /\ UNCHANGED <<cmd, enDoc, langDocs, cache, currentFlat, submitted, removedKeys, langIdx,
                 returnedMaps, fileWrites, runFrame, notCommandVars>>

\* cmdUpdate, lines 673-704: the diff against the cache; with no change the
\* run ends; otherwise en.json is edited and written
CmdUpdateStart ==
  /\ cmd = "update"
  /\ cmPc = "diff"
  /\ LET d == diffFlatMaps(currentFlat, cache)
         toTranslate == ObjAssign(d.added, d.changed)
     IN  IF Len(d.added) + Len(d.changed) + Len(d.removed) = 0
         THEN /\ cmPc' = "done"
              /\ UNCHANGED <<enDoc, submitted, removedKeys, fileWrites>>
         ELSE /\ enDoc' = removeNestedKeysFrom(setNestedKeysFrom(enDoc, toTranslate, 1),
                                               d.removed, 1)
              /\ fileWrites' = Append(fileWrites, "en")
              /\ submitted' = toTranslate
              /\ removedKeys' = d.removed
              /\ cmPc' = IF toTranslate = EmptyObj THEN "deleteOnly" ELSE "langs"
  /\ UNCHANGED <<cmd, langDocs, cache, currentFlat, langIdx, returnedMaps, exitMissing,
                 backendCalls, runFrame, notCommandVars>>

\* cmdUpdate, lines 706-711: with removals only, the keys are removed from
\* the document of one language
CmdUpdateDeleteLang ==
  /\ cmd = "update"
  /\ cmPc = "deleteOnly"
  /\ LET lang == TARGET_LANGS[langIdx]
     IN  /\ langDocs' = ObjSet(langDocs, lang,
                               removeNestedKeysFrom(ObjGet(langDocs, lang), removedKeys, 1))
         /\ fileWrites' = Append(fileWrites, lang)
  /\ langIdx' = langIdx + 1
  /\ cmPc' = IF langIdx = Len(TARGET_LANGS) THEN "saveCache" ELSE "deleteOnly"
  /\ UNCHANGED <<cmd, enDoc, cache, currentFlat, submitted, removedKeys, returnedMaps,
                 exitMissing, backendCalls, runFrame, notCommandVars>>

\* lines 719-730: the document of a language with the returned entries set
\* and the removed keys removed
langDocAfterUpdate_unwritten(langDoc, out, dotKeys) == langDoc
langDocAfterUpdate(langDoc, out, dotKeys) ==
  removeNestedKeysFrom(setNestedKeysFrom(langDoc, out, 1), dotKeys, 1)

\* lines 718 and 779-783: an error of translateFlatMap ends the process
\* before saveCache (line 736) is reached; the cache stays as it is
cacheAfterAbort_saved(old, cur) == cur
cacheAfterAbort(old, cur) == old

\* cmdUpdate, lines 715-730: one language is translated, and its document
\* read, edited and written; or translateFlatMap throws.  The backend gives
\* the map it has translated in the run before the same answer.
CmdUpdateLang ==
  /\ cmd = "update"
  /\ cmPc = "langs"
  /\ LET lang == TARGET_LANGS[langIdx]
         outs == IF langIdx <= Len(prevRun.returnedMaps)
                 THEN { prevRun.returnedMaps[langIdx] }
                 ELSE translateOutcomes(submitted, lang)
     IN  /\ backendCalls' = Append(backendCalls, lang)
         /\ \/ \E out \in outs :
                  /\ langDocs' =
                       ObjSet(langDocs, lang,
                              langDocAfterUpdate(ObjGet(langDocs, lang), out, removedKeys))
                  /\ fileWrites' = Append(fileWrites, lang)
                  /\ returnedMaps' = Append(returnedMaps, out)
                  /\ langIdx' = langIdx + 1
                  /\ cmPc' = IF langIdx = Len(TARGET_LANGS) THEN "saveCache" ELSE "langs"
                  /\ UNCHANGED cache
            \/ /\ cmPc' = "thrown"
               /\ cache' = cacheAfterAbort(cache, currentFlat)
               /\ UNCHANGED <<langDocs, fileWrites, returnedMaps, langIdx>>
  /\ UNCHANGED <<cmd, enDoc, currentFlat, submitted, removedKeys, exitMissing,
                 runFrame, notCommandVars>>

\* cmdUpdate, lines 734-737: the cache is replaced
cacheAfterUpdate_merged(old, cur) == ObjAssign(old, cur)
cacheAfterUpdate(old, cur) == cur

CmdUpdateSaveCache ==
  /\ cmd = "update"
  /\ cmPc = "saveCache"
  /\ cache' = cacheAfterUpdate(cache, currentFlat)
  /\ fileWrites' = Append(fileWrites, "cache")
  /\ cmPc' = "done"
  /\ UNCHANGED <<cmd, enDoc, langDocs, currentFlat, submitted, removedKeys, langIdx,
                 returnedMaps, exitMissing, backendCalls, runFrame, notCommandVars>>

\* lines 752-783: after an extract or an update that ended, well or with an
\* error, update is run on the same design; the model follows one such run
CmdUpdateAgain ==
  /\ cmd \in {"extract", "update"}
  /\ cmPc \in {"done", "thrown"}
  /\ prevRun.cmd = "none"
  /\ prevRun' = [cmd |-> cmd, end |-> cmPc, langIdx |-> langIdx,
                 returnedMaps |-> returnedMaps, fileWrites |-> fileWrites,
                 before |-> before]
  /\ before' = [enDoc |-> enDoc, langDocs |-> langDocs, cache |-> cache]
  /\ cmd' = "update"
  /\ cmPc' = "start"
  /\ submitted' = EmptyObj
  /\ removedKeys' = <<>>
  /\ langIdx' = 1
  /\ returnedMaps' = <<>>
  /\ fileWrites' = <<>>
  /\ backendCalls' = <<>>
  /\ UNCHANGED <<enDoc, langDocs, cache, currentFlat, exitMissing, missingEnv,
                 notCommandVars>>

\* the documents of the target languages after a translate run on fm in
\* which the backend answered every key
translatedDocs(fm) ==
  [i \in 1..Len(TARGET_LANGS) |->
     [key |-> TARGET_LANGS[i],
      value |-> flatToNested(translatedAll(nestedToFlat(flatToNested(fm), ""),
                                           TARGET_LANGS[i]))]]

\* no run before this one
NoRun ==
  [cmd |-> "none", end |-> "none", langIdx |-> 1, returnedMaps |-> <<>>,
   fileWrites |-> <<>>, before |-> <<>>]

\* a run starts from the files an extract and a translate of the design of
\* the run before left: translate on the new en.json, extract and update
\* on a new design, sync with no file yet; any of the variables can be unset
InitCommands ==
  /\ IdleSave
  /\ IdleRequests
  /\ IdleKeyGen
  /\ IdleNested
  /\ IdleDiff
  /\ IdleTranslate
  /\ IdleMerge
  /\ cmd \in {"extract", "translate", "update", "sync"}
  /\ missingEnv \in SUBSET EnvVars
  /\ currentFlat \in CurrentFlats
  /\ cache \in CASE cmd = "translate" -> {currentFlat}
                 [] cmd = "sync" -> {EmptyObj}
                 [] OTHER -> CachedFlats
  /\ enDoc = flatToNested(cache)
  /\ langDocs = translatedDocs(cache)
  /\ before = [enDoc |-> enDoc, langDocs |-> langDocs, cache |-> cache]
  /\ prevRun = NoRun
  /\ submitted = EmptyObj
  /\ removedKeys = <<>>
  /\ langIdx = 1
  /\ returnedMaps = <<>>
  /\ exitMissing = {}
  /\ fileWrites = <<>>
  /\ backendCalls = <<>>
  /\ cmPc = "start"

NextCommands ==
  \/ CmdExtract
  \/ CmdTranslateStart
  \/ CmdTranslateLang
  \/ CmdUpdateFetch
  \/ CmdUpdateStart
  \/ CmdUpdateDeleteLang
  \/ CmdUpdateLang
  \/ CmdUpdateSaveCache
  \/ CmdUpdateAgain

SpecCommands == InitCommands /\ [][NextCommands]_vars

-----------------------------------------------------------------------------
(* Claims about the commands, checked under SpecCommands *)

\* every translateFlatMap call of the run returned every submitted key with
\* its translated value
AllTranslated ==
  /\ Len(returnedMaps) = Len(TARGET_LANGS)
  /\ \A i \in 1..Len(TARGET_LANGS) :
       /\ Len(returnedMaps[i]) = Len(submitted)
       /\ \A j \in 1..Len(submitted) :
            returnedMaps[i][j] =
              [key |-> submitted[j].key,
               value |-> TARGET_LANGS[i] \o ":" \o submitted[j].value]

\* the document of every target language holds, at the path of every
\* submitted key, the translated value
DocsHoldTranslations ==
  \A i \in 1..Len(TARGET_LANGS) :
    \A j \in 1..Len(submitted) :
      TreeGet(Obj(ObjGet(langDocs, TARGET_LANGS[i])), split(submitted[j].key, "."))
        = Str(TARGET_LANGS[i] \o ":" \o submitted[j].value)

\* C20: after a translate or update run that ends well and in which the
\* backend returned every submitted key translated, the document of every
\* target language holds the translated value at the dotted path of every
\* submitted key.
C20_DocsHoldTranslations ==
  (cmPc = "done" /\ AllTranslated) => DocsHoldTranslations

\* the same for the translate command alone
C20_TranslateRuns ==
  (cmd = "translate" /\ cmPc = "done" /\ AllTranslated) => DocsHoldTranslations

\* the documents of all languages: en.json and those of the target languages
AllDocs == {enDoc} \cup { ObjGet(langDocs, TARGET_LANGS[i]) : i \in 1..Len(TARGET_LANGS) }

\* the document has a string at the dotted path
HasLeaf(entries, dotKey) == IsStr(TreeGet(Obj(entries), split(dotKey, ".")))

\* C21: after an update run that ended well, no document (en.json and the
\* document of each target language) has a leaf at the dotted path of a
\* key of removed, whether the diff had removals only or also added or
\* changed keys.
C21_RemovedPurged ==
  (cmd = "update" /\ cmPc = "done") =>
    \A i \in 1..Len(removedKeys) : \A d \in AllDocs : ~HasLeaf(d, removedKeys[i])

\* an update run with a removed key and a key to translate has ended well;
\* every document had a leaf at the removed key before it
C21_Witness ==
  /\ cmd = "update"
  /\ cmPc = "done"
  /\ prevRun = NoRun
  /\ removedKeys = <<"footer.save">>
  /\ submitted # EmptyObj
  /\ HasLeaf(before.enDoc, "footer.save")
  /\ \A i \in 1..Len(TARGET_LANGS) :
       HasLeaf(ObjGet(before.langDocs, TARGET_LANGS[i]), "footer.save")

\* the same with removals only
C21_WitnessDeleteOnly ==
  /\ cmd = "update"
  /\ cmPc = "done"
  /\ removedKeys = <<"footer.save">>
  /\ submitted = EmptyObj
  /\ HasLeaf(before.enDoc, "footer.save")

\* the entries of a FlatMap, whatever their order
EntriesOf(fm) == { <<fm[i].key, fm[i].value>> : i \in 1..Len(fm) }

\* the cache file, when this run wrote it, was written once, last, after
\* en.json and the document of every target language
CacheWrittenLast ==
  \A i \in 1..Len(fileWrites) :
    fileWrites[i] = "cache" =>
      /\ i = Len(fileWrites)
      /\ {"en"} \cup Range(TARGET_LANGS) \subseteq { fileWrites[j] : j \in 1..(i - 1) }

\* C22: after every update run that ended well the cache holds the entries
\* of the FlatMap of the design of the run and no other, and a run writes
\* the cache only after en.json and the document of every target language.
C22_CacheTotalAndLast ==
  (cmd = "update" /\ cmPc \in {"saveCache", "done"}) =>
    /\ CacheWrittenLast
    /\ cmPc = "done" => EntriesOf(cache) = EntriesOf(currentFlat)

\* the same for the runs that found a change, and the order of the writes
\* of every run
C22_ChangedRuns ==
  /\ cmd = "update" => CacheWrittenLast
  /\ (cmd = "update" /\ cmPc = "done" /\ fileWrites # <<>>) =>
       /\ fileWrites[Len(fileWrites)] = "cache"
       /\ cache = currentFlat

\* the update run was ended by an error of translateFlatMap for the
\* language at langIdx
AbortedAtLang ==
  /\ cmd = "update"
  /\ cmPc = "thrown"
  /\ backendCalls # <<"figma">>

\* C23: when an update run is ended by an error while it processes the
\* target language L, en.json and the documents of the languages before L
\* have been written with their updates, the documents of L and of the
\* languages after it are as before the run, and the cache is as before
\* the run.
C23_PartialRun ==
  AbortedAtLang =>
    /\ fileWrites = <<"en">> \o SubSeq(TARGET_LANGS, 1, langIdx - 1)
    /\ backendCalls = <<"figma">> \o SubSeq(TARGET_LANGS, 1, langIdx)
    /\ enDoc = removeNestedKeysFrom(setNestedKeysFrom(before.enDoc, submitted, 1),
                                    removedKeys, 1)
    /\ \A i \in 1..Len(TARGET_LANGS) :
         ObjGet(langDocs, TARGET_LANGS[i]) =
           IF i < langIdx
           THEN removeNestedKeysFrom(
                  setNestedKeysFrom(ObjGet(before.langDocs, TARGET_LANGS[i]),
                                    returnedMaps[i], 1),
                  removedKeys, 1)
           ELSE ObjGet(before.langDocs, TARGET_LANGS[i])
    /\ cache = before.cache

\* a first update run ended by an error at zh, after it changed en.json
\* and the document of ko
C23_Witness ==
  /\ AbortedAtLang
  /\ prevRun = NoRun
  /\ langIdx = 2
  /\ enDoc # before.enDoc
  /\ ObjGet(langDocs, "ko") # ObjGet(before.langDocs, "ko")
  /\ cache # currentFlat

\* the environment variables a command needs: those its requireEnv calls
\* name, for sync those of extract and of translate
NeededEnv(c) ==
  CASE c = "extract" -> {"FIGMA_TOKEN", "FIGMA_FILE_ID"}
    [] c = "translate" -> {"ANTHROPIC_API_KEY"}
    [] OTHER -> EnvVars

\* a run that lacks a variable it needs has sent no backend request and
\* written no file, and has ended, if it has taken a step, with the error
\* that lists the variables it lacks
EndsBeforeAnyEffect ==
  (NeededEnv(cmd) \cap missingEnv # {}) =>
    /\ backendCalls = <<>>
    /\ fileWrites = <<>>
    /\ cmPc \in {"start", "exit"}
    /\ cmPc = "exit" => exitMissing = NeededEnv(cmd) \cap missingEnv

\* C25: a run of extract, translate, update or sync that lacks an
\* environment variable the command needs ends with an error that names
\* the missing variables, before any backend request is sent and before
\* any locale or cache file is written.
C25_MissingEnvEndsRun == EndsBeforeAnyEffect

\* the same for the commands extract, translate and update
C25_SingleCommands == cmd # "sync" => EndsBeforeAnyEffect

\* an update run that lacks two variables has ended with the error that
\* lists them
C25_UpdateExits ==
  /\ cmd = "update"
  /\ prevRun = NoRun
  /\ missingEnv = {"FIGMA_TOKEN", "ANTHROPIC_API_KEY"}
  /\ cmPc = "exit"
  /\ exitMissing = missingEnv

\* this run is an update on the design of the extract or update run
\* before it, which ended well
FollowsGoodRun ==
  /\ cmd = "update"
  /\ prevRun.cmd \in {"extract", "update"}
  /\ prevRun.end = "done"

\* C28: an update run that follows an extract or update run that ended
\* well, on the same text nodes in the same order, finds an empty diff,
\* calls translateFlatMap for no language (so no translation or scoring
\* request is sent and the confidence file is not written) and writes no
\* locale or cache file.
C28_NoOpUpdate ==
  FollowsGoodRun =>
    /\ LET d == diffFlatMaps(currentFlat, cache)
       IN  d.added = EmptyObj /\ d.changed = EmptyObj /\ d.removed = <<>>
    /\ cmPc \in {"start", "exit", "diff", "done", "thrown"}
    /\ backendCalls \in {<<>>, <<"figma">>}
    /\ fileWrites = <<>>
    /\ returnedMaps = <<>>
    /\ [enDoc |-> enDoc, langDocs |-> langDocs, cache |-> cache] = before

\* an update run that translated a key and removed another ended well, and
\* the update run after it has ended
C28_Witness ==
  /\ FollowsGoodRun
  /\ prevRun.cmd = "update"
  /\ prevRun.returnedMaps # <<>>
  /\ prevRun.before.cache # cache
  /\ ~(ObjKeys(prevRun.before.cache) \subseteq ObjKeys(cache))
  /\ cmPc = "done"

\* the same after an extract run
C28_WitnessExtract ==
  /\ FollowsGoodRun
  /\ prevRun.cmd = "extract"
  /\ currentFlat # EmptyObj
  /\ cmPc = "done"

\* this update run follows an update run on the same design that an error
\* of translateFlatMap ended after it wrote en.json, and the backend has
\* given the same answers to both
FollowsAbortedRun ==
  /\ cmd = "update"
  /\ prevRun.cmd = "update"
  /\ prevRun.end = "thrown"
  /\ prevRun.fileWrites # <<>>
  /\ \A i \in 1..Len(prevRun.returnedMaps) :
       i <= Len(returnedMaps) => returnedMaps[i] = prevRun.returnedMaps[i]

\* the files one update run that is not interrupted leaves, from the files
\* `files`, on the design whose FlatMap is cur, when translateFlatMap
\* returns outs language by language (nothing where outs has no map)
SingleRun(files, cur, outs) ==
  LET d == diffFlatMaps(cur, files.cache)
      toTranslate == ObjAssign(d.added, d.changed)
  IN  [enDoc |-> removeNestedKeysFrom(setNestedKeysFrom(files.enDoc, toTranslate, 1),
                                      d.removed, 1),
       langDocs |-> [i \in 1..Len(TARGET_LANGS) |->
                       [key |-> TARGET_LANGS[i],
                        value |-> removeNestedKeysFrom(
                                    setNestedKeysFrom(
                                      ObjGet(files.langDocs, TARGET_LANGS[i]),
                                      IF i <= Len(outs) THEN outs[i] ELSE EmptyObj, 1),
                                    d.removed, 1)]],
       cache |-> cur]

\* C29: when an update run is ended by an error after it wrote some
\* documents, with the cache not written, and update is run again on the
\* same design and ends well, the backend giving the same translations,
\* en.json, the documents of the target languages and the cache are those
\* that one update run not interrupted leaves.
C29_RecoveryAfterAbort ==
  (FollowsAbortedRun /\ cmPc = "done") =>
    [enDoc |-> enDoc, langDocs |-> langDocs, cache |-> cache]
      = SingleRun(prevRun.before, currentFlat, returnedMaps)

\* an update run with a key to translate and a key to remove was ended by
\* an error at ja, after it wrote en.json and the documents of ko and zh;
\* the run after it has ended well
C29_Witness ==
  /\ FollowsAbortedRun
  /\ cmPc = "done"
  /\ prevRun.fileWrites = <<"en", "ko", "zh">>
  /\ removedKeys # <<>>
  /\ Len(returnedMaps) = Len(TARGET_LANGS)
  /\ fileWrites = <<"en", "ko", "zh", "ja", "cache">>

-----------------------------------------------------------------------------
(* The backend requests of a run: fetchFigmaDocument (figma.js), and the   *)
(* loop over the languages (server.js) around the translation and scoring  *)
(* requests of translateFlatMap (translator.js).  A request is sent in one *)
(* step and answered in another; what the maps hold is left out.           *)

\* figma.js, lines 10 and 11
MAX_RETRIES == 3
RETRY_DELAY_MS == 3000

\* line 32: the time slept before the request of an attempt after the first
retryDelay_flat(n) == RETRY_DELAY_MS
retryDelay(n) == RETRY_DELAY_MS * (n - 1)

\* the answers to the request of line 35: the document, an error with a
\* response status, a timeout of axios (code ECONNABORTED), an error whose
\* message holds 'timeout', and an error with neither
FetchAnswers ==
  { [kind |-> "document"], [kind |-> "status", status |-> 403],
    [kind |-> "status", status |-> 404], [kind |-> "status", status |-> 500],
    [kind |-> "ECONNABORTED"], [kind |-> "timeout"], [kind |-> "network"] }

\* lines 49-54: the statuses that end the call, and the error thrown
endsCall_none(ans) == FALSE
endsCall(ans) == ans.kind = "status" /\ ans.status \in {403, 404}

fetchErrorOf(ans) == IF ans.status = 403 THEN "forbidden" ELSE "notFound"

\* line 56
isTimeout(ans) == ans.kind \in {"ECONNABORTED", "timeout"}

\* translator.js, lines 104 and 172, figma.js, line 35: the call awaits the
\* answer of the request it sent
awaited_not(pc) == pc
awaited(pc) == "await" \o pc

\* the answers to a translation request: one _translateBatch returns, one it
\* retries while it can (unparseable or mostly unchanged), or an API error
TranslateAnswers ==
  { [kind |-> "accepted"], [kind |-> "rejected"], [kind |-> "error", status |-> 401],
    [kind |-> "error", status |-> 429], [kind |-> "error", status |-> 500] }

\* _handleApiError, lines 194-204: the error thrown
apiErrorOf(ans) ==
  IF ans.status = 401 THEN "auth" ELSE IF ans.status = 429 THEN "rateLimit" ELSE "api"

\* the answers to a scoring request: scores, or an error or a text that
\* does not parse, for which _scoreBatch returns nulls
ScoreAnswers == { [kind |-> "scores"], [kind |-> "noScores"] }

\* the request of the loop the run is in
requestInHand ==
  CASE rqPc = "get" -> [to |-> "figma", attempt |-> attempt]
    [] rqPc = "translate" ->
         [to |-> "translate", lang |-> rqLang, start |-> rqBatch, retry |-> rqRetry]
    [] rqPc = "score" -> [to |-> "score", lang |-> rqLang, start |-> rqScore]

\* fetchFigmaDocument, lines 30-33: the sleep before a request after the first
FetchSleep ==
  /\ rqPc = "sleep"
  /\ fetchLog' = Append(fetchLog, [ev |-> "sleep", ms |-> retryDelay(attempt)])
  /\ rqPc' = "get"
  /\ UNCHANGED <<rqCmd, rqEntries, attempt, lastError, rqLang, rqBatch, rqRetry, rqScore,
                 inFlight, sent, lastAnswer, written, rqError, notRequestVars>>

\* fetchFigmaDocument, line 35: the request is sent
FetchSend ==
  /\ rqPc = "get"
  /\ inFlight' = Append(inFlight, requestInHand)
  /\ fetchLog' = Append(fetchLog, [ev |-> "get", attempt |-> attempt])
  /\ rqPc' = awaited(rqPc)
  /\ UNCHANGED <<rqCmd, rqEntries, attempt, lastError, rqLang, rqBatch, rqRetry, rqScore,
                 sent, lastAnswer, written, rqError, notRequestVars>>

\* fetchFigmaDocument, lines 44-64: the answer: the document is returned; a
\* 403 or a 404 throws; after any other error the loop goes on, with or
\* without the continue of line 59, and past its end line 64 throws
FetchAnswer ==
  /\ rqPc = "awaitget"
  /\ \E ans \in FetchAnswers :
       /\ lastAnswer' = ans
       /\ fetchLog' = Append(fetchLog, [ev |-> "answer", answer |-> ans])
       /\ IF ans.kind = "document"
          THEN /\ rqPc' = "fetched"
               /\ UNCHANGED <<attempt, lastError, rqError>>
          ELSE /\ lastError' = ans
               /\ IF endsCall(ans)
                  THEN /\ rqPc' = "thrown"
                       /\ rqError' = fetchErrorOf(ans)
                       /\ UNCHANGED attempt
                  ELSE IF isTimeout(ans) /\ attempt < MAX_RETRIES
                  THEN \* line 59: continue
                       /\ attempt' = attempt + 1
                       /\ rqPc' = "sleep"
                       /\ UNCHANGED rqError
                  ELSE IF attempt < MAX_RETRIES
                  THEN \* the end of the catch block: the loop goes on
                       /\ attempt' = attempt + 1
                       /\ rqPc' = "sleep"
                       /\ UNCHANGED rqError
                  ELSE /\ rqPc' = "thrown"
                       /\ rqError' = "failed"
                       /\ UNCHANGED attempt
  /\ inFlight' = Tail(inFlight)
  /\ UNCHANGED <<rqCmd, rqEntries, rqLang, rqBatch, rqRetry, rqScore, sent, written,
                 notRequestVars>>

\* cmdUpdate, lines 669-716: with the document, the run goes on to the loop
\* over the languages; the locals of fetchFigmaDocument are gone
UpdateProceeds ==
  /\ rqPc = "fetched"
  /\ rqPc' = "translate"
  /\ attempt' = 1
  /\ lastError' = [kind |-> "none"]
  /\ fetchLog' = <<>>
  /\ UNCHANGED <<rqCmd, rqEntries, rqLang, rqBatch, rqRetry, rqScore, inFlight, sent,
                 lastAnswer, written, rqError, notRequestVars>>

\* _translateBatch, lines 104-108: the request of the batch at rqBatch is sent
TranslateSend ==
  /\ rqPc = "translate"
  /\ inFlight' = Append(inFlight, requestInHand)
  /\ sent' = Append(sent, requestInHand)
  /\ rqPc' = awaited(rqPc)
  /\ UNCHANGED <<rqCmd, rqEntries, attempt, lastError, fetchLog, rqLang, rqBatch, rqRetry,
                 rqScore, lastAnswer, written, rqError, notRequestVars>>

\* _translateBatch, lines 109-141, and translateFlatMap, lines 53-62: the
\* answer: an API error is thrown; the batch is retried; or the loop goes
\* on to the next batch, and after the last one to the scoring loop
TranslateAnswer ==
  /\ rqPc = "awaittranslate"
  /\ \E ans \in TranslateAnswers :
       /\ lastAnswer' = ans
       /\ IF ans.kind = "error"
          THEN /\ rqPc' = "thrown"
               /\ rqError' = apiErrorOf(ans)
               /\ UNCHANGED <<rqBatch, rqRetry>>
          ELSE IF ans.kind = "rejected" /\ canRetry(rqRetry)
          THEN /\ rqRetry' = rqRetry + 1
               /\ rqPc' = "translate"
               /\ UNCHANGED <<rqBatch, rqError>>
          ELSE /\ rqBatch' = rqBatch + TRANSLATE_BATCH_SIZE
               /\ rqRetry' = 0
               /\ rqPc' = IF rqBatch + TRANSLATE_BATCH_SIZE < rqEntries
                          THEN "translate" ELSE "score"
               /\ UNCHANGED rqError
  /\ inFlight' = Tail(inFlight)
  /\ UNCHANGED <<rqCmd, rqEntries, attempt, lastError, fetchLog, rqLang, rqScore, sent,
                 written, notRequestVars>>

\* _scoreBatch, lines 172-176: the request of the scoring batch at rqScore
\* is sent
ScoreSend ==
  /\ rqPc = "score"
  /\ inFlight' = Append(inFlight, requestInHand)
  /\ sent' = Append(sent, requestInHand)
  /\ rqPc' = awaited(rqPc)
  /\ UNCHANGED <<rqCmd, rqEntries, attempt, lastError, fetchLog, rqLang, rqBatch, rqRetry,
                 rqScore, lastAnswer, written, rqError, notRequestVars>>

\* _scoreBatch, lines 177-188, and translateFlatMap, lines 68-75: whatever
\* the answer, the loop goes on to the next scoring batch, and after the
\* last one the call returns
ScoreAnswer ==
  /\ rqPc = "awaitscore"
  /\ \E ans \in ScoreAnswers : lastAnswer' = ans
  /\ rqScore' = rqScore + CONFIDENCE_BATCH_SIZE
  /\ rqPc' = IF rqScore + CONFIDENCE_BATCH_SIZE < rqEntries THEN "score" ELSE "write"
  /\ inFlight' = Tail(inFlight)
  /\ UNCHANGED <<rqCmd, rqEntries, attempt, lastError, fetchLog, rqLang, rqBatch, rqRetry,
                 sent, written, rqError, notRequestVars>>

\* server.js, lines 653-655 and 719-731: the document of the language is
\* written, and the loop goes on to the next language
LangDocWrite ==
  /\ rqPc = "write"
  /\ written' = Append(written, rqLang)
  /\ rqLang' = rqLang + 1
  /\ rqBatch' = 0
  /\ rqRetry' = 0
  /\ rqScore' = 0
  /\ sent' = <<>>
  /\ rqPc' = IF rqLang = Len(TARGET_LANGS) THEN "done" ELSE "translate"
  /\ UNCHANGED <<rqCmd, rqEntries, attempt, lastError, fetchLog, inFlight, lastAnswer,
                 rqError, notRequestVars>>

\* a translate run starts at its loop over the languages, an update run at
\* fetchFigmaDocument; the map to translate has one batch or more
InitRequests ==
  /\ IdleSave
  /\ IdleKeyGen
  /\ IdleNested
  /\ IdleDiff
  /\ IdleTranslate
  /\ IdleMerge
  /\ IdleCommands
  /\ rqCmd \in {"translate", "update"}
  /\ rqEntries \in TrSizes \ {0}
  /\ attempt = 1
  /\ lastError = [kind |-> "none"]
  /\ fetchLog = <<>>
  /\ rqLang = 1
  /\ rqBatch = 0
  /\ rqRetry = 0
  /\ rqScore = 0
  /\ inFlight = <<>>
  /\ sent = <<>>
  /\ lastAnswer = [kind |-> "none"]
  /\ written = <<>>
  /\ rqError = "none"
  /\ rqPc = IF rqCmd = "update" THEN "get" ELSE "translate"

NextRequests ==
  \/ FetchSleep
  \/ FetchSend
  \/ FetchAnswer
  \/ UpdateProceeds
  \/ TranslateSend
  \/ TranslateAnswer
  \/ ScoreSend
  \/ ScoreAnswer
  \/ LangDocWrite

SpecRequests == InitRequests /\ [][NextRequests]_vars

-----------------------------------------------------------------------------
(* Claims about the backend requests, checked under SpecRequests *)

\* the requests sent to the translation backend for the language in hand
\* that ask for a translation, and those that ask for scores
TranslateRequests == SelectSeq(sent, LAMBDA r : r.to = "translate")
ScoreRequests == SelectSeq(sent, LAMBDA r : r.to = "score")

\* the last answer is a 401 or a 429 to a translation request
FatalTranslateAnswer ==
  /\ lastAnswer.kind = "error"
  /\ lastAnswer.status \in {401, 429}

\* the last answer is a 403 to the request of fetchFigmaDocument
ForbiddenFetchAnswer == lastAnswer = [kind |-> "status", status |-> 403]

\* C24: a 401 or a 429 answer to a translation request ends
\* translateFlatMap at once with an error: the batch is not sent again and
\* no request for another batch or for scores is sent; a 403 answer to the
\* request of fetchFigmaDocument ends the call on that attempt, with no
\* other attempt.
C24_FatalAnswers ==
  /\ [](FatalTranslateAnswer =>
          /\ rqPc = "thrown"
          /\ rqError = (IF lastAnswer.status = 401 THEN "auth" ELSE "rateLimit")
          /\ inFlight = <<>>
          /\ sent[Len(sent)].to = "translate")
  /\ [](ForbiddenFetchAnswer =>
          /\ rqPc = "thrown"
          /\ rqError = "forbidden"
          /\ inFlight = <<>>
          /\ fetchLog[Len(fetchLog)].ev = "answer")
  /\ [][rqPc # "thrown"]_vars

\* a 429 answer to the first retry of the second batch ended the call: three
\* requests were sent, none for scores
C24_Witness ==
  /\ FatalTranslateAnswer
  /\ rqError = "rateLimit"
  /\ Len(sent) = 3
  /\ sent[3] = [to |-> "translate", lang |-> 1, start |-> TRANSLATE_BATCH_SIZE, retry |-> 1]
  /\ ScoreRequests = <<>>

\* a 403 answer to the second attempt of fetchFigmaDocument ended the call
C24_WitnessFetch ==
  /\ ForbiddenFetchAnswer
  /\ attempt = 2
  /\ rqPc = "thrown"

\* the translation requests of the language in hand ask for the batches in
\* the order of the entries: the first for the batch at 0, each other one
\* for the batch of the request before it once more, or for the next batch
BatchesInOrder ==
  LET tr == TranslateRequests
  IN  \A i \in 1..Len(tr) :
        IF i = 1 THEN tr[i].start = 0 /\ tr[i].retry = 0
        ELSE \/ tr[i].start = tr[i - 1].start /\ tr[i].retry = tr[i - 1].retry + 1
             \/ tr[i].start = tr[i - 1].start + 50 /\ tr[i].retry = 0

\* the scoring requests of the language in hand follow all its translation
\* requests, the last of which asked for the last batch
ScoringAfterTranslation ==
  /\ \A i, j \in 1..Len(sent) : (i < j /\ sent[i].to = "score") => sent[j].to = "score"
  /\ ScoreRequests # <<>> =>
       TranslateRequests[Len(TranslateRequests)].start + 50 >= rqEntries

\* C26: in a translate or update run at most one backend request is sent
\* and not answered; the translation batches of a language are requested
\* in the order of the entries, a batch is sent again only after its answer
\* and before the next batch; the scoring requests of a language follow
\* all its translation batches; and a request for a language is sent only
\* after the documents of the languages before it were written.
C26_Sequential ==
  /\ Len(inFlight) <= 1
  /\ (inFlight # <<>> /\ sent # <<>>) => inFlight = <<sent[Len(sent)]>>
  /\ BatchesInOrder
  /\ ScoringAfterTranslation
  /\ \A i \in 1..Len(sent) :
       written = [l \in 1..(sent[i].lang - 1) |-> l]

\* the second language of a run: after a batch, its retry and the next
\* batch were answered, the scoring request is in flight
C26_Witness ==
  /\ rqLang = 2
  /\ written = <<1>>
  /\ Len(TranslateRequests) = 3
  /\ TranslateRequests[2].retry = 1
  /\ TranslateRequests[3].start = 50
  /\ inFlight = <<[to |-> "score", lang |-> 2, start |-> 0]>>

\* the requests of the fetchFigmaDocument call, and its sleeps
FetchRequests == SelectSeq(fetchLog, LAMBDA e : e.ev = "get")
FetchSleeps == SelectSeq(fetchLog, LAMBDA e : e.ev = "sleep")

-----------------------------------------------------------------------------
(* server.js: the handler of POST /api/save of the review server, for two  *)
(* requests in progress at once.  A request passes checkAuth and its body  *)
(* parses; each names one language and one key.                            *)

\* the index of the first "::" of a string, 0 when there is none
FirstSeparator(s) ==
  IF \E i \in 1..(Len(s) - 1) : SubSeq(s, i, i + 1) = "::"
  THEN CHOOSE i \in 1..(Len(s) - 1) :
         /\ SubSeq(s, i, i + 1) = "::"
         /\ \A j \in 1..(i - 1) : SubSeq(s, j, j + 1) # "::"
  ELSE 0

\* lines 467-468: changeKey.split('::') gives the language, and the other
\* parts joined by '::' the key
changeLang(changeKey) ==
  IF FirstSeparator(changeKey) = 0 THEN changeKey
  ELSE SubSeq(changeKey, 1, FirstSeparator(changeKey) - 1)

changeKeyOf(changeKey) ==
  IF FirstSeparator(changeKey) = 0 THEN ""
  ELSE SubSeq(changeKey, FirstSeparator(changeKey) + 2, Len(changeKey))

\* the languages and the keys of the changes of the requests
SaveLangs == {"ko", "zh"}
SaveKeys == {"a", "b", "a.b"}

\* the bodies of the requests: changes with one entry, the text naming the
\* request
SaveBodies(r) ==
  { <<[key |-> l \o "::" \o k, value |-> "text" \o ToString(r)]>> :
      l \in SaveLangs, k \in SaveKeys }

\* lines 463-471: the language of the one change of a request, and its
\* updates as a FlatMap
langOf(changes) == changeLang(changes[1].key)
updatesOf(changes) == <<[key |-> changeKeyOf(changes[1].key), value |-> changes[1].value]>>

\* lines 472-476: the 'end' event of a request: its body is parsed, the
\* document of its language is read, and the updates are set in the object
\* read; writeLocale is called
SaveRead(r) ==
  /\ svPc[r] = "end"
  /\ svNested' = [svNested EXCEPT
                    ![r] = setNestedKeysFrom(ObjGet(localeFiles, langOf(svChanges[r])),
                                             updatesOf(svChanges[r]), 1)]
  /\ svPc' = [svPc EXCEPT ![r] = "write"]
  /\ svLog' = Append(svLog, [req |-> r, op |-> "read"])
  /\ UNCHANGED <<localeFiles, svChanges, notSaveVars>>

\* lines 477-480: the object is written to the document of the language, and
\* the request is answered with success
SaveWrite(r) ==
  /\ svPc[r] = "write"
  /\ localeFiles' = ObjSet(localeFiles, langOf(svChanges[r]), svNested[r])
  /\ svPc' = [svPc EXCEPT ![r] = "responded"]
  /\ svLog' = Append(svLog, [req |-> r, op |-> "write"])
  /\ UNCHANGED <<svChanges, svNested, notSaveVars>>

\* two requests have arrived; the documents are some flatToNested wrote
InitSave ==
  /\ IdleKeyGen
  /\ IdleNested
  /\ IdleDiff
  /\ IdleTranslate
  /\ IdleMerge
  /\ IdleCommands
  /\ IdleRequests
  /\ \E d \in DocInputs :
       localeFiles = <<[key |-> "ko", value |-> d], [key |-> "zh", value |-> d]>>
  /\ svChanges \in { <<b1, b2>> : b1 \in SaveBodies(1), b2 \in SaveBodies(2) }
  /\ svNested = <<EmptyObj, EmptyObj>>
  /\ svPc = <<"end", "end">>
  /\ svLog = <<>>

NextSave ==
  \/ \E r \in {1, 2} : SaveRead(r)
  \/ \E r \in {1, 2} : SaveWrite(r)

SpecSave == InitSave /\ [][NextSave]_vars

-----------------------------------------------------------------------------
(* Claims about the review server, checked under SpecSave *)

\* both requests were answered with success
BothResponded == svPc = <<"responded", "responded">>

\* the two requests change different keys of one language
SameLangOtherKey ==
  /\ langOf(svChanges[1]) = langOf(svChanges[2])
  /\ updatesOf(svChanges[1])[1].key # updatesOf(svChanges[2])[1].key

\* the document of its language holds the text of request r at its key
EditKept(r) ==
  TreeGet(Obj(ObjGet(localeFiles, langOf(svChanges[r]))),
          split(updatesOf(svChanges[r])[1].key, "."))
    = Str(updatesOf(svChanges[r])[1].value)

\* C30: when two save requests that change different keys of one language
\* have both been answered with success, whatever the order of their reads
\* and writes, the document of the language holds the text of each at its
\* key.
C30_NoLostEdit ==
  (BothResponded /\ SameLangOtherKey) => (EditKept(1) /\ EditKept(2))

\* the same for requests handled one after the other whose keys are not a
\* prefix of one another
C30_OneAfterTheOther ==
  (/\ BothResponded
   /\ SameLangOtherKey
   /\ svLog[1].req = svLog[2].req
   /\ {updatesOf(svChanges[1])[1].key, updatesOf(svChanges[2])[1].key} # {"a", "a.b"})
    => (EditKept(1) /\ EditKept(2))

====
